---------------------------- MODULE Spec2Model ----------------------------
(***************************************************************************)
(* Discrete-event simulation engine of the MRT-3 line simulator            *)
(* (backend/simulation/core.py): the event queue, the train / station /    *)
(* segment state machines, the departure and insertion arbitration, the    *)
(* service-period controller and the passenger exchange.                   *)
(*                                                                         *)
(* Times are milliseconds since midnight of the simulation day (the code   *)
(* uses datetime / timedelta, whose resolution is finer than any duration  *)
(* the handlers add).  None is 0 for trains, stations and periods,         *)
(* <<0, 0>> for segments and NoTime for datetimes.                         *)
(***************************************************************************)
EXTENDS Integers, Sequences, FiniteSets, TLC

VARIABLES
    cfg,                      \* the configuration and demand table of the run
    service_periods,          \* Simulation.service_periods (with the headways)
    current_time,             \* Simulation.current_time
    event_queue,              \* Simulation.event_queue.queue (the heap array)
    last_event,               \* the last element of Simulation.event_history
    trains,                   \* Simulation.trains
    active_trains,            \* Simulation.active_trains
    platforms,                \* Station.platforms, per station
    waiting_demand,           \* Station.waiting_demand, per station
    segments,                 \* Simulation.track_segments
    passenger_demand,         \* Simulation.passenger_demand
    timetables,               \* Simulation.timetables
    active_headway,           \* Simulation.active_headway
    trains_to_withdraw_count, \* Simulation.trains_to_withdraw_count
    run_state                 \* position of Simulation.run: "running" / "completed"

vars == <<cfg, service_periods, current_time, event_queue, last_event, trains,
          active_trains, platforms, waiting_demand, segments, passenger_demand,
          timetables, active_headway, trains_to_withdraw_count, run_state>>

-----------------------------------------------------------------------------
(* Bounds of the model *)

NumStations == 4
MaxTrains == 3
MaxGroups == 2

-----------------------------------------------------------------------------
(* Program constants *)

NoTime == -1
MsPerSecond == 1000
MsPerMinute == 60000
MsPerHour == 3600000
StartHour == 5
EndHour == 22
StartTime == StartHour * MsPerHour
EndTime == EndHour * MsPerHour
PassthroughSpeedKmh == 20
ZoneLength == 130
InsertionTraversalSeconds == 60

Stations == 1..NumStations
NoSegment == <<0, 0>>
SegmentIds == {<<i, i + 1>> : i \in 1..(NumStations - 1)}
                  \cup {<<i + 1, i>> : i \in 1..(NumStations - 1)}
InsertionSegment == <<2, 1>>

Max(a, b) == IF a >= b THEN a ELSE b
Min(a, b) == IF a <= b THEN a ELSE b
Abs(a) == IF a >= 0 THEN a ELSE -a
\* int(x) of a rational num / den with den > 0: truncation toward zero
TruncDiv(num, den) == IF num >= 0 THEN num \div den ELSE -((-num) \div den)

SeqMin(S) == CHOOSE x \in S : \A y \in S : x <= y

-----------------------------------------------------------------------------
(* custom_round: round half to even of the quotient n / d, d > 0 *)

custom_round(n, d) ==
    LET q == n \div d
        r == n % d
    IN  IF 2 * r = d THEN (IF q % 2 = 0 THEN q ELSE q + 1)
        ELSE IF 2 * r < d THEN q ELSE q + 1


-----------------------------------------------------------------------------
(* Event and its ordering in the priority queue *)

Event(time, event_type, period, train, station, segment) ==
    [time |-> time, event_type |-> event_type, period |-> period,
     train |-> train, station |-> station, segment |-> segment]

NoEvent == Event(NoTime, "none", 0, 0, 0, NoSegment)

\* priority_map of Event.__lt__
priority_map(event_type) ==
    CASE event_type = "service_period_change" -> 0
      [] event_type = "train_departure" -> 1
      [] event_type = "segment_exit" -> 2
      [] event_type = "train_arrival" -> 3
      [] event_type = "turnaround" -> 4
      [] event_type = "segment_enter" -> 5
      [] event_type = "train_insertion" -> 6
      [] OTHER -> 99

\* a comparison of the queue entries that forgets Event.__lt__
EventLtByTime(self, other) == self.time < other.time

\* (self.time, self) < (other.time, other): the tuple comparison of the
\* queue entries, which falls to Event.__lt__ when the times are equal
EventLt(self, other) ==
    IF self.time # other.time
    THEN self.time < other.time
    ELSE priority_map(self.event_type) < priority_map(other.event_type)

\* heapq._siftdown(heap, startpos, pos) with newitem = heap[pos]; positions
\* are the 0-based positions of the Python list, heap[pos] is h[pos + 1]
RECURSIVE SiftDown(_, _, _, _)
SiftDown(h, startpos, pos, newitem) ==
    IF pos > startpos
    THEN LET parentpos == (pos - 1) \div 2
             parent == h[parentpos + 1]
         IN  IF EventLt(newitem, parent)
             THEN SiftDown([h EXCEPT ![pos + 1] = parent], startpos, parentpos, newitem)
             ELSE [h EXCEPT ![pos + 1] = newitem]
    ELSE [h EXCEPT ![pos + 1] = newitem]

\* the loop of heapq._siftup: bubble the smaller child up until a leaf
RECURSIVE SiftUpLoop(_, _, _)
SiftUpLoop(h, pos, endpos) ==
    LET childpos == 2 * pos + 1
        rightpos == childpos + 1
    IN  IF childpos < endpos
        THEN LET c == IF rightpos < endpos /\ ~EventLt(h[childpos + 1], h[rightpos + 1])
                      THEN rightpos ELSE childpos
             IN  SiftUpLoop([h EXCEPT ![pos + 1] = h[c + 1]], c, endpos)
        ELSE [heap |-> h, pos |-> pos]

SiftUp(h, pos) ==
    LET newitem == h[pos + 1]
        r == SiftUpLoop(h, pos, Len(h))
    IN  SiftDown(r.heap, pos, r.pos, newitem)

\* Simulation.schedule_event: event_queue.put((event.time, event)), a heappush
schedule_event(queue, event) ==
    LET h == Append(queue, event)
    IN  SiftDown(h, 0, Len(h) - 1, event)

\* the queue left by event_queue.get(), a heappop, of a non-empty queue
HeapPop(queue) ==
    LET lastelt == queue[Len(queue)]
        h == SubSeq(queue, 1, Len(queue) - 1)
    IN  IF h = <<>> THEN <<>> ELSE SiftUp([h EXCEPT ![1] = lastelt], 0)

\* the event returned by event_queue.get()
HeapTop(queue) == queue[1]

RECURSIVE ScheduleAll(_, _)
ScheduleAll(queue, events) ==
    IF events = <<>> THEN queue
    ELSE ScheduleAll(schedule_event(queue, Head(events)), Tail(events))

\* the events of the queue, as the list comprehensions over
\* event_queue.queue see them
QueueEvents(queue) == {queue[i] : i \in 1..Len(queue)}

\* Simulation.get_event_by_type(event_type, segment=segment): the first match
\* in the order of the heap array, or NoEvent
get_event_by_type(queue, event_type, segment) ==
    LET idx == {i \in 1..Len(queue) :
                   queue[i].event_type = event_type /\ queue[i].segment = segment}
    IN  IF idx = {} THEN NoEvent ELSE queue[SeqMin(idx)]

-----------------------------------------------------------------------------
(* Stations and trains of a configuration *)

station_type(c, s) == IF c.scheme = "REGULAR" THEN "AB" ELSE c.pattern[s]

is_terminus(s) == s = 1 \/ s = NumStations

\* Station.should_stop
should_stop(stype, service_type) == stype = service_type \/ stype = "AB"

\* service type given by Simulation._initialize_trains
service_type_of(c, train_id) ==
    IF c.scheme = "REGULAR" THEN "AB"
    ELSE IF train_id % 2 = 0 THEN "B" ELSE "A"

\* speeds are kept in units of 1/18 m/s, so that a speed of k km/h is 5 * k
cruising_speed(c) == 5 * c.maxSpeed
passthrough_speed == 5 * PassthroughSpeedKmh

\* TrackSegment.calculate_traversal_time: int(total_time) in seconds and the
\* speed the train is left with.  The sums of the code are taken over the
\* common denominator 36*a*d*vc (stop) and 180*a*d*vc (pass through).
calculate_traversal_time(c, current_speed, next_station_stops, segment_distance) ==
    LET a == c.acceleration
        d == c.deceleration
        vc == cruising_speed(c)
        vp == passthrough_speed
        v0 == current_speed
    IN  IF next_station_stops
        THEN LET \* decel_distance = v0^2 / (648 d), clamped to the segment
                 declamped == v0 * v0 > 648 * d * segment_distance
                 \* 648*a*d * (remaining_distance - accel_distance)
                 rem == IF declamped
                        THEN 0 - d * vc * vc
                        ELSE 648 * a * d * segment_distance - a * v0 * v0 - d * vc * vc
                 cruise == IF rem > 0 THEN rem ELSE 0
                 num == 2 * a * vc * v0 + 2 * d * vc * vc + cruise
             IN  [time |-> TruncDiv(num, 36 * a * d * vc), speed |-> 0]
        ELSE LET rem == 648 * a * segment_distance - (vc - vp) * (vc - vp)
                 cruise == IF rem > 0 THEN 5 * d * rem ELSE 0
                 \* zone_time = 18 * ZoneLength / vp seconds; vp divides 3240 * ZoneLength
                 zone == ((3240 * ZoneLength) \div vp) * a * d * vc
                 num == 10 * a * vc * (v0 - vp) + zone + 10 * d * vc * (vc - vp) + cruise
             IN  [time |-> TruncDiv(num, 180 * a * d * vc), speed |-> vp]

\* one direction of the walk of Simulation.calculate_loop_time: from station s
\* toward station last, accumulating traversal and dwell
RECURSIVE LoopWalk(_, _, _, _, _, _, _)
LoopWalk(c, svc, s, step, last, speed, total) ==
    IF s = last THEN [total |-> total, speed |-> speed]
    ELSE LET next == s + step
             stops == should_stop(station_type(c, next), svc)
             dist == c.distances[IF step = 1 THEN s ELSE next]
             tt == calculate_traversal_time(c, speed, stops, dist)
             dwell == IF stops \/ (next = 1 /\ step = -1) THEN c.dwellTime ELSE 0
         IN  LoopWalk(c, svc, next, step, last, tt.speed, total + tt.time + dwell)

\* Simulation.calculate_loop_time(train) for a southbound train at station 1:
\* seconds of the loop and the current_speed the walk leaves on the train
calculate_loop_time(c, train_id) ==
    LET svc == service_type_of(c, train_id)
        out == LoopWalk(c, svc, 1, 1, NumStations, cruising_speed(c), 0)
    IN  LoopWalk(c, svc, NumStations, -1, 1, out.speed, out.total + c.turnaroundTime)

-----------------------------------------------------------------------------
(* Passenger demand *)

\* the candidate scan of Passenger_Demand.find_nearest_transfer, over the AB
\* stations in station order; best = 0 is the initial None
RECURSIVE TransferScan(_, _, _, _, _, _)
TransferScan(c, origin, destination, s, min_total, best) ==
    IF s > NumStations THEN best
    ELSE IF station_type(c, s) # "AB"
    THEN TransferScan(c, origin, destination, s + 1, min_total, best)
    ELSE LET dist_origin == Abs(origin - s)
             total == dist_origin + Abs(destination - s)
         IN  IF best = 0 \/ total < min_total
             THEN TransferScan(c, origin, destination, s + 1, total, s)
             ELSE IF total = min_total /\ dist_origin < Abs(origin - best)
             THEN TransferScan(c, origin, destination, s + 1, min_total, s)
             ELSE TransferScan(c, origin, destination, s + 1, min_total, best)

\* a choice of the transfer station that takes the first candidate of the
\* smallest total, without the tiebreaker
transfer_without_tiebreak(c, origin, destination) ==
    LET candidates == {s \in Stations : station_type(c, s) = "AB"}
        total(s) == Abs(origin - s) + Abs(destination - s)
    IN  IF candidates = {} THEN 0
        ELSE SeqMin({s \in candidates : \A k \in candidates : total(s) <= total(k)})

\* Passenger_Demand.find_nearest_transfer; 0 is None
find_nearest_transfer(c, origin, destination) ==
    TransferScan(c, origin, destination, 1, 0, 0)

\* TRIP_TYPE of Simulation._initialize_passengers_demand
trip_type_of(c, origin, destination) ==
    IF station_type(c, destination) = "AB" \/ station_type(c, origin) = "AB"
           \/ station_type(c, origin) = station_type(c, destination)
    THEN "DIRECT" ELSE "TRANSFER"

direction_toward(from, to) == IF to > from THEN "southbound" ELSE "northbound"

\* Passenger_Demand.__init__ followed by the direction and transfer station
\* that Simulation._initialize_passengers_demand sets
Passenger_Demand(c, row) ==
    LET tt == trip_type_of(c, row.origin, row.destination)
        transfer == IF tt = "TRANSFER"
                    THEN find_nearest_transfer(c, row.origin, row.destination) ELSE 0
    IN  [origin_station_id |-> row.origin,
         destination_station_id |-> row.destination,
         transfer_station_id |-> transfer,
         arrival_time |-> row.arrival_time,
         arrival_at_transfer_time |-> NoTime,
         departure_from_origin_time |-> NoTime,
         departure_from_transfer_time |-> NoTime,
         passenger_count |-> row.passenger_count,
         trip_type |-> tt,
         boarding_time |-> NoTime,
         completion_time |-> NoTime,
         wait_time |-> 0,
         travel_time |-> 0,
         status |-> "waiting_at_origin",
         train_id |-> 0,
         direction |-> IF tt = "TRANSFER" THEN direction_toward(row.origin, transfer)
                       ELSE direction_toward(row.origin, row.destination)]

\* Passenger_Demand.calculate_wait_time, in milliseconds
calculate_wait_time(demand) ==
    LET origin_wait == IF demand.departure_from_origin_time # NoTime
                           /\ demand.arrival_time # NoTime
                       THEN demand.departure_from_origin_time - demand.arrival_time
                       ELSE 0
        transfer_wait == IF demand.trip_type = "TRANSFER"
                             /\ demand.departure_from_transfer_time # NoTime
                             /\ demand.arrival_at_transfer_time # NoTime
                         THEN demand.departure_from_transfer_time
                                  - demand.arrival_at_transfer_time
                         ELSE 0
        total == origin_wait + transfer_wait
    IN  IF total >= 0 THEN total ELSE 0

\* Passenger_Demand.calculate_travel_time, in milliseconds
calculate_travel_time(demand) ==
    LET direct == IF demand.completion_time # NoTime /\ demand.boarding_time # NoTime
                  THEN demand.completion_time - demand.boarding_time ELSE 0
        leg1 == IF demand.arrival_at_transfer_time # NoTime /\ demand.boarding_time # NoTime
                THEN demand.arrival_at_transfer_time - demand.boarding_time ELSE 0
        leg2 == IF demand.completion_time # NoTime
                    /\ demand.departure_from_transfer_time # NoTime
                THEN demand.completion_time - demand.departure_from_transfer_time ELSE 0
        total == IF demand.trip_type = "DIRECT" THEN direct
                 ELSE IF demand.trip_type = "TRANSFER" THEN leg1 + leg2 ELSE 0
    IN  IF total >= 0 THEN total ELSE 0

-----------------------------------------------------------------------------
(* Initial state: Simulation.initialize of one scheme *)

\* Train.__init__ as called by Simulation._initialize_trains
Train(c, train_id) ==
    [service_type |-> service_type_of(c, train_id),
     capacity |-> c.maxCapacity,
     current_speed |-> 0,
     boarded_demand |-> <<>>,
     current_passenger_count |-> 0,
     direction |-> "southbound",
     current_station |-> 1,
     is_active |-> TRUE,
     arrival_time |-> NoTime,
     last_departure_time |-> NoTime,
     current_journey_travel_time |-> 0,
     status |-> "unset"]

\* TrackSegment.__init__
TrackSegment ==
    [occupied_by |-> 0, last_entry_time |-> NoTime,
     last_exit_time |-> NoTime, next_available |-> NoTime]

RECURSIVE MaxTrainCount(_)
MaxTrainCount(periods) ==
    IF periods = <<>> THEN 0
    ELSE Max(Head(periods).TRAIN_COUNT, MaxTrainCount(Tail(periods)))

\* loop time in minutes and headway of Simulation._initialize_service_periods
loop_time_minutes(c) == calculate_loop_time(c, 1).total \div 60

InitServicePeriods(c) ==
    [i \in 1..Len(c.periods) |->
        [START_HOUR |-> c.periods[i].START_HOUR,
         TRAIN_COUNT |-> c.periods[i].TRAIN_COUNT,
         HEADWAY |-> custom_round(loop_time_minutes(c), c.periods[i].TRAIN_COUNT)]]

\* the service_period_change events, scheduled 30 minutes before the start hour
PeriodEvents(c) ==
    [i \in 1..Len(c.periods) |->
        Event((c.periods[i].START_HOUR - 1) * MsPerHour + 30 * MsPerMinute,
              "service_period_change", i, 0, 0, NoSegment)]

\* the trains of _initialize_trains, with the current_speed that the calls
\* of calculate_loop_time in _initialize_service_periods leave: on trains[0]
\* for the loop time, on trains[1] for the loop time of the B trains that
\* SKIP-STOP prints
InitTrains(c) ==
    [t \in 1..MaxTrainCount(c.periods) |->
        IF t = 1 \/ (t = 2 /\ c.scheme # "REGULAR")
        THEN [Train(c, t) EXCEPT !.current_speed = calculate_loop_time(c, t).speed]
        ELSE Train(c, t)]

InitFor(c) ==
    /\ cfg = c
    /\ service_periods = InitServicePeriods(c)
    /\ current_time = StartTime
    /\ event_queue = ScheduleAll(<<>>, PeriodEvents(c))
    /\ last_event = NoEvent
    /\ trains = InitTrains(c)
    /\ active_trains = <<>>
    /\ platforms = [s \in Stations |-> [northbound |-> 0, southbound |-> 0]]
    /\ waiting_demand = [s \in Stations |->
                            SelectSeq([g \in 1..Len(c.demand) |-> g],
                                      LAMBDA g : c.demand[g].origin = s)]
    /\ segments = [seg \in SegmentIds |-> TrackSegment]
    /\ passenger_demand = [g \in 1..Len(c.demand) |-> Passenger_Demand(c, c.demand[g])]
    /\ timetables = <<>>
    /\ active_headway = 0
    /\ trains_to_withdraw_count = 0
    /\ run_state = "running"

-----------------------------------------------------------------------------
(* Congestion metrics *)

\* segment_congestion > tenths / 10, for segment_congestion = num / den
CongestionAbove(m, tenths) == 10 * m.trains_in_segments > tenths * m.congestion_den

\* EventHandler._calculate_system_congestion_metrics, over the queue as it is
\* when the handler calls it; the headway multiplier is kept in tenths
calculate_system_congestion_metrics(queue, trs, active) ==
    LET active_train_count == Len(active)
        trains_in_segments ==
            Cardinality({i \in 1..Len(active) : trs[active[i]].current_station = 0})
        den == Max(active_train_count, 1)
        m0 == [trains_in_segments |-> trains_in_segments, congestion_den |-> den]
        upcoming_arrivals ==
            Cardinality({i \in 1..Len(queue) :
                            /\ queue[i].event_type = "segment_exit"
                            /\ queue[i].station = 1
                            /\ trs[queue[i].train].direction = "northbound"})
        base == IF CongestionAbove(m0, 7) THEN 13
                ELSE IF CongestionAbove(m0, 5) THEN 12
                ELSE IF CongestionAbove(m0, 3) THEN 11
                ELSE 10
        bumped == IF upcoming_arrivals > 2 THEN base + 2 ELSE base
    IN  [active_trains |-> active_train_count,
         trains_in_segments |-> trains_in_segments,
         congestion_den |-> den,
         upcoming_arrivals_station1 |-> upcoming_arrivals,
         recommended_headway_multiplier |-> Min(bumped, 15)]

-----------------------------------------------------------------------------
(* Passenger exchange *)

\* the state a passenger exchange reads and writes
ExchangeState(trs, waiting, demand) ==
    [trains |-> trs, waiting |-> waiting, demand |-> demand, alighted |-> 0, boarded |-> 0]

\* a removal that leaves the list as it is
RemoveNothing(seq, x) == seq

RemoveFirst(seq, x) ==
    LET idx == {i \in 1..Len(seq) : seq[i] = x}
    IN  IF idx = {} THEN seq
        ELSE LET k == SeqMin(idx)
             IN  SubSeq(seq, 1, k - 1) \o SubSeq(seq, k + 1, Len(seq))

\* the alight loop of Station.process_passenger_exchange over a copy of
\* train.boarded_demand
RECURSIVE AlightLoop(_, _, _, _, _)
AlightLoop(st, station, train, train_arrival_time, list) ==
    IF list = <<>> THEN st
    ELSE
      LET g == Head(list)
          demand == st.demand[g]
          case1 == demand.trip_type = "DIRECT" /\ demand.destination_station_id = station
          case2 == /\ ~case1
                   /\ demand.trip_type = "TRANSFER"
                   /\ demand.transfer_station_id = station
                   /\ demand.status = "in_transit_leg1"
          case3 == /\ ~case1 /\ ~case2
                   /\ demand.trip_type = "TRANSFER"
                   /\ demand.destination_station_id = station
                   /\ demand.status = "in_transit_leg2"
          completed == [demand EXCEPT !.status = "completed",
                                      !.completion_time = train_arrival_time]
          updated ==
              IF case1 \/ case3
              THEN [completed EXCEPT !.travel_time = calculate_travel_time(completed)]
              ELSE [demand EXCEPT
                       !.status = "waiting_for_transfer",
                       !.arrival_at_transfer_time = train_arrival_time,
                       !.direction = direction_toward(demand.transfer_station_id,
                                                      demand.destination_station_id),
                       !.train_id = 0]
          next ==
              IF case1 \/ case2 \/ case3
              THEN [st EXCEPT
                       !.demand[g] = updated,
                       !.waiting[station] = IF case2 THEN Append(@, g) ELSE @,
                       !.alighted = @ + demand.passenger_count,
                       !.trains[train].current_passenger_count = @ - demand.passenger_count,
                       !.trains[train].boarded_demand = RemoveFirst(@, g)]
              ELSE st
      IN  AlightLoop(next, station, train, train_arrival_time, Tail(list))

\* a reachability test that lets every train reach every stop
reaches_any_stop(service_type, stop_type) == TRUE

\* can_train_reach_next_stop / can_train_reach_final_dest
can_reach(service_type, stop_type) ==
    service_type = stop_type \/ service_type = "AB" \/ stop_type = "AB"

\* a board loop that takes up only groups waiting at their origin
board_first_leg_only(demand, stype, service_type, direction, train_departure_time) ==
    /\ can_reach(service_type, stype)
    /\ demand.status = "waiting_at_origin"
    /\ demand.arrival_time <= train_departure_time
    /\ demand.direction = direction
    /\ can_reach(service_type,
                 station_type(cfg, IF demand.trip_type = "TRANSFER"
                                   THEN demand.transfer_station_id
                                   ELSE demand.destination_station_id))

\* a board loop that does not ask whether the train serves the group's next
\* required stop
board_for_any_stop(demand, stype, service_type, direction, train_departure_time) ==
    /\ can_reach(service_type, stype)
    /\ \/ /\ demand.status = "waiting_at_origin"
          /\ demand.arrival_time <= train_departure_time
          /\ demand.direction = direction
       \/ /\ demand.status = "waiting_for_transfer"
          /\ demand.arrival_at_transfer_time <= train_departure_time
          /\ demand.direction = direction

\* a board loop that does not ask when the group came to the station
board_before_arrival(demand, stype, service_type, direction, train_departure_time) ==
    /\ can_reach(service_type, stype)
    /\ \/ /\ demand.status = "waiting_at_origin"
          /\ demand.direction = direction
          /\ can_reach(service_type,
                       station_type(cfg, IF demand.trip_type = "TRANSFER"
                                         THEN demand.transfer_station_id
                                         ELSE demand.destination_station_id))
       \/ /\ demand.status = "waiting_for_transfer"
          /\ demand.direction = direction
          /\ can_reach(service_type, station_type(cfg, demand.destination_station_id))

\* board_this_train of the board loop, for one waiting group
board_this_train(demand, stype, service_type, direction, train_departure_time) ==
    /\ can_reach(service_type, stype)
    /\ \/ /\ demand.status = "waiting_at_origin"
          /\ demand.arrival_time <= train_departure_time
          /\ demand.direction = direction
          /\ can_reach(service_type,
                       station_type(cfg, IF demand.trip_type = "TRANSFER"
                                         THEN demand.transfer_station_id
                                         ELSE demand.destination_station_id))
       \/ /\ demand.status = "waiting_for_transfer"
          /\ demand.arrival_at_transfer_time <= train_departure_time
          /\ demand.direction = direction
          /\ can_reach(service_type, station_type(cfg, demand.destination_station_id))

\* a boarding that takes every leg for the first
BoardedGroupAsFirstLeg(demand, train, train_arrival_time, train_departure_time) ==
    LET d1 == [demand EXCEPT !.boarding_time = train_arrival_time,
                             !.departure_from_origin_time = train_departure_time]
    IN  [d1 EXCEPT !.wait_time = calculate_wait_time(d1),
                   !.status = "in_transit_leg1",
                   !.train_id = train]

\* the group as boarding leaves it
BoardedGroup(demand, train, train_arrival_time, train_departure_time) ==
    IF demand.status = "waiting_at_origin"
    THEN LET d1 == [demand EXCEPT !.boarding_time = train_arrival_time,
                                  !.departure_from_origin_time = train_departure_time]
         IN  [d1 EXCEPT !.wait_time = calculate_wait_time(d1),
                        !.status = "in_transit_leg1",
                        !.train_id = train]
    ELSE [demand EXCEPT !.status = "in_transit_leg2",
                        !.departure_from_transfer_time = train_departure_time,
                        !.train_id = train]

\* a board loop that takes every compatible group while the train has room
fits_while_room(available_space, passenger_count) == TRUE

\* a board loop that takes a group as soon as some of it fits
fits_partly(available_space, passenger_count) ==
    Min(available_space, passenger_count) > 0

\* whether the board loop boards a compatible group: the whole group fits
fits_on_train(available_space, passenger_count) ==
    Min(available_space, passenger_count) > 0
        /\ Min(available_space, passenger_count) = passenger_count

\* the board loop of Station.process_passenger_exchange over a copy of
\* station.waiting_demand
RECURSIVE BoardLoop(_, _, _, _, _, _)
BoardLoop(st, station, train, train_arrival_time, train_departure_time, list) ==
    IF list = <<>> THEN st
    ELSE
      LET g == Head(list)
          demand == st.demand[g]
          tr == st.trains[train]
          available_space == tr.capacity - tr.current_passenger_count
      IN  IF ~board_this_train(demand, station_type(cfg, station), tr.service_type,
                               tr.direction, train_departure_time)
          THEN BoardLoop(st, station, train, train_arrival_time, train_departure_time,
                         Tail(list))
          ELSE IF available_space <= 0
          THEN st
          ELSE IF fits_on_train(available_space, demand.passenger_count)
          THEN BoardLoop(
                   [st EXCEPT
                       !.demand[g] = BoardedGroup(demand, train, train_arrival_time,
                                                  train_departure_time),
                       !.waiting[station] = RemoveFirst(@, g),
                       !.boarded = @ + demand.passenger_count,
                       !.trains[train].current_passenger_count = @ + demand.passenger_count,
                       !.trains[train].boarded_demand = Append(@, g)],
                   station, train, train_arrival_time, train_departure_time, Tail(list))
          ELSE BoardLoop(st, station, train, train_arrival_time, train_departure_time,
                         Tail(list))

\* Station.process_passenger_exchange(scheme_map, train, arrival, departure)
process_passenger_exchange(st, station, train, train_arrival_time, train_departure_time) ==
    LET alit == AlightLoop(st, station, train, train_arrival_time,
                           st.trains[train].boarded_demand)
    IN  BoardLoop(alit, station, train, train_arrival_time, train_departure_time,
                  alit.waiting[station])

-----------------------------------------------------------------------------
(* Timetable *)

RECURSIVE SumCounts(_, _, _)
SumCounts(demand, list, departure_time) ==
    IF list = <<>> THEN 0
    ELSE (IF demand[Head(list)].arrival_time <= departure_time
          THEN demand[Head(list)].passenger_count ELSE 0)
             + SumCounts(demand, Tail(list), departure_time)

\* the TimetableEntry appended by EventHandler._record_timetable_entry, read
\* from the state the exchange left
TimetableEntry(st, train, station, arrival_time, departure_time, travel_time, train_status) ==
    [service_type |-> st.trains[train].service_type,
     train_id |-> train,
     station_id |-> station,
     arrival_time |-> arrival_time,
     departure_time |-> departure_time,
     travel_time |-> travel_time,
     direction |-> st.trains[train].direction,
     passengers_boarded |-> st.boarded,
     passengers_alighted |-> st.alighted,
     current_station_passenger_count |->
         SumCounts(st.demand, st.waiting[station], departure_time),
     current_passenger_count |-> st.trains[train].current_passenger_count,
     train_status |-> train_status]

-----------------------------------------------------------------------------
(* TrackSegment.enter / TrackSegment.exit *)

\* TrackSegment.is_available
is_available(segment) == segment.occupied_by = 0

\* an enter that does not look at the occupant
enter_always_succeeds(segment) == TRUE

\* whether TrackSegment.enter(train, time) succeeds
enter_succeeds(segment) == segment.occupied_by = 0

\* the segment after a successful TrackSegment.enter(train, time)
enter(segment, train, time) ==
    [segment EXCEPT !.last_entry_time = time, !.occupied_by = train]

\* the segment after TrackSegment.exit(train, time)
exit(segment, train, time) ==
    IF segment.occupied_by = train
    THEN [segment EXCEPT !.last_exit_time = time, !.occupied_by = 0]
    ELSE segment

InSeq(seq, x) == \E i \in 1..Len(seq) : seq[i] = x

OtherDirection(direction) ==
    IF direction = "northbound" THEN "southbound" ELSE "northbound"

-----------------------------------------------------------------------------
(* Event handlers.  Each takes the popped event and the queue left by the   *)
(* pop, and gives the next value of every variable but current_time and     *)
(* last_event, which the main loop sets.                                    *)

\* the deployment loop of _handle_service_period_change: st holds the queue,
\* the trains and the active list; available[i + 1] is deployed in round i
RECURSIVE DeployLoop(_, _, _, _, _, _, _)
DeployLoop(st, i, trains_to_deploy, available, departure_time, headway_multiplier, spread_factor) ==
    IF i >= trains_to_deploy THEN st
    ELSE
      LET train == available[i + 1]
          trs == [st.trains EXCEPT ![train].is_active = TRUE,
                                   ![train].current_speed = cruising_speed(cfg)]
          active == Append(st.active, train)
          queue == schedule_event(st.queue,
                       Event(departure_time, "train_insertion", 0, train, 0,
                             InsertionSegment))
          \* minutes = headway * (multiplier / 10) * (spread / 10)
          adaptive_headway == st.headway * headway_multiplier * spread_factor * 600
          buffer == IF i > 0 /\ i % 3 = 0 THEN st.headway * 30000 ELSE 0
          metrics == calculate_system_congestion_metrics(queue, trs, active)
      IN  DeployLoop([st EXCEPT !.trains = trs, !.active = active, !.queue = queue],
                     i + 1, trains_to_deploy, available,
                     departure_time + adaptive_headway + buffer,
                     IF i < trains_to_deploy - 1
                     THEN metrics.recommended_headway_multiplier
                     ELSE headway_multiplier,
                     spread_factor)

\* a deploy branch that inserts one train at a time
deploy_one_train(target_train_count, current_active_count, roster) ==
    Min(1, roster - current_active_count)

\* the number of trains the deploy branch inserts
trains_to_deploy_count(target_train_count, current_active_count, roster) ==
    Min(target_train_count - current_active_count, roster - current_active_count)

handle_service_period_change(event, queue) ==
    LET period == service_periods[event.period]
        headway == period.HEADWAY
        target_train_count == period.TRAIN_COUNT
        current_active_count == Len(active_trains)
        trains_to_deploy ==
            trains_to_deploy_count(target_train_count, current_active_count, Len(trains))
        available_trains ==
            SelectSeq([t \in 1..Len(trains) |-> t], LAMBDA t : ~InSeq(active_trains, t))
        metrics == calculate_system_congestion_metrics(queue, trains, active_trains)
        initial_delay == Max(2 * MsPerMinute, headway * 30000)
        spread_factor == IF trains_to_deploy <= 3 THEN 12 ELSE 15
        deployed ==
            DeployLoop([queue |-> queue, trains |-> trains, active |-> active_trains,
                        headway |-> headway],
                       0, trains_to_deploy, available_trains, event.time + initial_delay,
                       metrics.recommended_headway_multiplier, spread_factor)
    IN  /\ active_headway' = headway
        /\ IF current_active_count < target_train_count
           THEN /\ event_queue' = deployed.queue
                /\ trains' = deployed.trains
                /\ active_trains' = deployed.active
                /\ UNCHANGED trains_to_withdraw_count
           ELSE /\ event_queue' = queue
                /\ trains_to_withdraw_count' =
                       IF current_active_count > target_train_count
                       THEN current_active_count - target_train_count
                       ELSE trains_to_withdraw_count
                /\ UNCHANGED <<trains, active_trains>>
        /\ UNCHANGED <<cfg, service_periods, platforms, waiting_demand, segments,
                       passenger_demand, timetables, run_state>>

\* a departure time with the dwell taken off the arrival
departure_before_arrival(station, train, arrival_time) ==
    arrival_time - cfg.dwellTime * MsPerSecond

\* departure time that a normal arrival schedules
arrival_departure_time(station, train, arrival_time) ==
    IF cfg.scheme = "REGULAR"
    THEN arrival_time + cfg.dwellTime * MsPerSecond
    ELSE IF ~should_stop(station_type(cfg, station), trains[train].service_type)
    THEN arrival_time
    ELSE arrival_time + cfg.dwellTime * MsPerSecond

\* an arrival handler that withdraws no train
withdrawal_never(event) == FALSE

\* the withdrawal check of _handle_arrival
withdrawal_due(event) ==
    /\ trains_to_withdraw_count > 0
    /\ event.station = 1
    /\ trains[event.train].direction = "northbound"

handle_arrival(event, queue) ==
    LET train == event.train
        station == event.station
        arrival_time == event.time
        direction == trains[train].direction
        end_of_service_time == arrival_time + cfg.dwellTime * MsPerSecond
        inactive == [trains EXCEPT ![train].is_active = FALSE]
        st == process_passenger_exchange(
                  ExchangeState(inactive, waiting_demand, passenger_demand),
                  station, train, trains[train].arrival_time, end_of_service_time)
        departure_time == arrival_departure_time(station, train, arrival_time)
    IN  IF withdrawal_due(event)
        THEN /\ event_queue' = queue
             /\ IF InSeq(active_trains, train)
                THEN /\ active_trains' = RemoveFirst(active_trains, train)
                     /\ trains_to_withdraw_count' = trains_to_withdraw_count - 1
                     /\ trains' = st.trains
                     /\ waiting_demand' = st.waiting
                     /\ passenger_demand' = st.demand
                     /\ timetables' = Append(timetables,
                            TimetableEntry(st, train, station, arrival_time,
                                           end_of_service_time,
                                           trains[train].current_journey_travel_time,
                                           "inactive"))
                     /\ platforms' = [platforms EXCEPT ![station][direction] = 0]
                ELSE UNCHANGED <<active_trains, trains_to_withdraw_count, trains,
                                 waiting_demand, passenger_demand, timetables, platforms>>
             /\ UNCHANGED <<cfg, service_periods, segments, active_headway, run_state>>
        ELSE /\ trains' = [trains EXCEPT ![train].current_station = station]
             /\ platforms' = [platforms EXCEPT ![station][direction] = train]
             /\ event_queue' = schedule_event(queue,
                    Event(departure_time,
                          IF is_terminus(station) THEN "turnaround" ELSE "train_departure",
                          0, train, station, NoSegment))
             /\ UNCHANGED <<cfg, service_periods, active_trains, waiting_demand, segments,
                            passenger_demand, timetables, active_headway,
                            trains_to_withdraw_count, run_state>>


\* station that a train at station heads for
next_station_of(station, direction) ==
    IF direction = "southbound" THEN station + 1 ELSE station - 1

\* a resource check that forgets the segment ahead
platform_available_only(next_station, direction, next_segment) ==
    platforms[next_station][direction] = 0

\* a resource check that forgets the platform ahead
segment_available_only(next_station, direction, next_segment) ==
    is_available(segments[next_segment])

\* the resource check of _handle_departure
resources_available(next_station, direction, next_segment) ==
    platforms[next_station][direction] = 0 /\ is_available(segments[next_segment])

\* the queue's events of one type, as the handlers' scans of event_queue.queue
\* select them
EventsOfType(queue, event_type) ==
    {queue[i] : i \in {j \in 1..Len(queue) : queue[j].event_type = event_type}}

\* while final_departure_time in existing_departure_times: += 3 seconds
RECURSIVE AvoidExisting(_, _)
AvoidExisting(time, existing) ==
    IF time \in existing THEN AvoidExisting(time + 3 * MsPerSecond, existing) ELSE time

\* headway (minutes) * max(1.0, multiplier * 0.8), in milliseconds
departure_fallback_delay(headway, multiplier) == headway * 600 * Max(100, 8 * multiplier)

\* a dwell cap of twice the dwell
cap_dwell_at_twice(final_departure_time, arrival_time, event_time) ==
    LET max_allowed_dwell == 2 * cfg.dwellTime * MsPerSecond
        adjusted_departure_time == arrival_time + max_allowed_dwell
    IN  IF final_departure_time - arrival_time > max_allowed_dwell
            /\ adjusted_departure_time > event_time
        THEN adjusted_departure_time
        ELSE final_departure_time

\* the dwell cap of _handle_departure: at most 3 x the dwell after the
\* recorded arrival, and never earlier than the event itself
cap_dwell(final_departure_time, arrival_time, event_time) ==
    LET max_allowed_dwell == 3 * cfg.dwellTime * MsPerSecond
        adjusted_departure_time == arrival_time + max_allowed_dwell
    IN  IF final_departure_time - arrival_time > max_allowed_dwell
            /\ adjusted_departure_time > event_time
        THEN adjusted_departure_time
        ELSE final_departure_time

\* the time at which the conflict path of _handle_departure re-enqueues the
\* departure, or NoTime when it enqueues nothing
reschedule_departure_time(event, queue, next_station, next_segment) ==
    LET train == event.train
        station == event.station
        direction == trains[train].direction
        metrics == calculate_system_congestion_metrics(queue, trains, active_trains)
        buffer_factor == IF CongestionAbove(metrics, 6) THEN 20
                         ELSE IF CongestionAbove(metrics, 4) THEN 15 ELSE 10
        \* base_buffer (5 s) * buffer_factor
        buffer_time_conflict == 5 * buffer_factor * 100
        fallback_clear_time ==
            event.time + departure_fallback_delay(active_headway,
                                                  metrics.recommended_headway_multiplier)
        occupant == segments[next_segment].occupied_by
        segment_exit_events ==
            {e.time : e \in {x \in EventsOfType(queue, "segment_exit") :
                        x.segment = next_segment /\ x.train = occupant}}
        after_segment ==
            IF occupant = 0 THEN event.time
            ELSE IF segment_exit_events # {}
            THEN Max(event.time, SeqMin(segment_exit_events) + buffer_time_conflict)
            ELSE Max(event.time, fallback_clear_time)
        preceding_train == platforms[next_station][direction]
        platform_clear_events ==
            {e.time : e \in {x \in EventsOfType(queue, "train_departure") :
                        x.station = next_station /\ x.train = preceding_train}}
        required_departure_time ==
            IF preceding_train = 0 THEN after_segment
            ELSE IF platform_clear_events # {}
            THEN Max(after_segment, SeqMin(platform_clear_events) + buffer_time_conflict)
            ELSE Max(after_segment, fallback_clear_time)
        existing_departure_times ==
            {e.time : e \in {x \in EventsOfType(queue, "train_departure") :
                        x.station = station /\ x.train # train}}
        final_departure_time ==
            cap_dwell(AvoidExisting(required_departure_time, existing_departure_times),
                      trains[train].arrival_time, event.time)
    IN  IF final_departure_time # event.time THEN final_departure_time
        ELSE IF occupant # 0 \/ preceding_train # 0
        THEN event.time + active_headway * 48000
        ELSE NoTime

handle_departure(event, queue) ==
    LET train == event.train
        station == event.station
        direction == trains[train].direction
        next_station == next_station_of(station, direction)
        next_segment == <<station, next_station>>
        departure_time == event.time
        active == [trains EXCEPT ![train].status = "active"]
        st0 == ExchangeState(active, waiting_demand, passenger_demand)
        st == IF should_stop(station_type(cfg, station), trains[train].service_type)
              THEN process_passenger_exchange(st0, station, train,
                                              trains[train].arrival_time, departure_time)
              ELSE st0
        reschedule_time == reschedule_departure_time(event, queue, next_station, next_segment)
    IN  IF ~trains[train].is_active
        THEN /\ event_queue' = queue
             /\ UNCHANGED <<cfg, service_periods, trains, active_trains, platforms,
                            waiting_demand, segments, passenger_demand, timetables,
                            active_headway, trains_to_withdraw_count, run_state>>
        ELSE IF resources_available(next_station, direction, next_segment)
        THEN /\ timetables' = Append(timetables,
                    TimetableEntry(st, train, station, trains[train].arrival_time,
                                   departure_time,
                                   trains[train].current_journey_travel_time, "active"))
             /\ trains' = [st.trains EXCEPT ![train].last_departure_time = departure_time,
                                            ![train].current_journey_travel_time = 0]
             /\ waiting_demand' = st.waiting
             /\ passenger_demand' = st.demand
             /\ platforms' = [platforms EXCEPT ![station][direction] = 0]
             /\ event_queue' = schedule_event(queue,
                    Event(departure_time, "segment_enter", 0, train, next_station,
                          next_segment))
             /\ UNCHANGED <<cfg, service_periods, active_trains, segments, active_headway,
                            trains_to_withdraw_count, run_state>>
        ELSE /\ event_queue' =
                    IF reschedule_time = NoTime THEN queue
                    ELSE schedule_event(queue,
                             Event(reschedule_time, "train_departure", 0, train, station,
                                   NoSegment))
             /\ UNCHANGED <<cfg, service_periods, trains, active_trains, platforms,
                            waiting_demand, segments, passenger_demand, timetables,
                            active_headway, trains_to_withdraw_count, run_state>>

handle_turnaround(event, queue) ==
    LET train == event.train
        station == event.station
        departure_time == event.time
        previous_direction == trains[train].direction
        st == process_passenger_exchange(
                  ExchangeState(trains, waiting_demand, passenger_demand),
                  station, train, trains[train].arrival_time, departure_time)
        arrival_time == departure_time + cfg.turnaroundTime * MsPerSecond
        next_departure_time == arrival_time + cfg.dwellTime * MsPerSecond
        turned == [st.trains EXCEPT ![train].direction = OtherDirection(previous_direction)]
    IN  IF ~trains[train].is_active
        THEN /\ event_queue' = queue
             /\ UNCHANGED <<cfg, service_periods, trains, active_trains, platforms,
                            waiting_demand, segments, passenger_demand, timetables,
                            active_headway, trains_to_withdraw_count, run_state>>
        ELSE /\ timetables' = Append(timetables,
                    TimetableEntry(st, train, station, trains[train].arrival_time,
                                   departure_time,
                                   trains[train].current_journey_travel_time,
                                   trains[train].status))
             /\ waiting_demand' = st.waiting
             /\ passenger_demand' = st.demand
             /\ platforms' = [platforms EXCEPT ![station][previous_direction] = 0]
             /\ IF event.time <= EndTime
                THEN /\ trains' = [turned EXCEPT
                            ![train].arrival_time = arrival_time,
                            ![train].current_journey_travel_time = cfg.turnaroundTime]
                     /\ event_queue' = schedule_event(queue,
                            Event(next_departure_time, "train_departure", 0, train,
                                  station, NoSegment))
                ELSE /\ trains' = turned
                     /\ event_queue' = queue
             /\ UNCHANGED <<cfg, service_periods, active_trains, segments, active_headway,
                            trains_to_withdraw_count, run_state>>

\* where _handle_segment_enter re-enqueues a segment_enter that failed
reschedule_segment_enter_time(event, queue) ==
    LET metrics == calculate_system_congestion_metrics(queue, trains, active_trains)
        segment_exit_events ==
            {e.time : e \in {x \in EventsOfType(queue, "segment_exit") :
                        x.segment = event.segment}}
        buffer_seconds == IF CongestionAbove(metrics, 6) THEN 30 ELSE 15
    IN  IF segment_exit_events # {}
        THEN SeqMin(segment_exit_events) + buffer_seconds * MsPerSecond
        ELSE event.time
                 + active_headway * metrics.recommended_headway_multiplier * 6000

handle_segment_enter(event, queue) ==
    LET train == event.train
        segment == event.segment
        station == trains[train].current_station
        next_station == event.station
        direction == trains[train].direction
        stops == should_stop(station_type(cfg, next_station), trains[train].service_type)
        segment_distance == cfg.distances[Min(segment[1], segment[2])]
        traversal == calculate_traversal_time(cfg, trains[train].current_speed, stops,
                                              segment_distance)
        exit_time == event.time + traversal.time * MsPerSecond
    IN  IF enter_succeeds(segments[segment])
        THEN /\ segments' = [segments EXCEPT
                    ![segment] = [enter(@, train, event.time) EXCEPT
                                     !.next_available = exit_time]]
             /\ platforms' = [platforms EXCEPT ![station][direction] = 0]
             /\ trains' = [trains EXCEPT
                    ![train].current_speed = traversal.speed,
                    ![train].current_journey_travel_time = @ + traversal.time,
                    ![train].arrival_time = exit_time]
             /\ event_queue' = schedule_event(queue,
                    Event(exit_time, "segment_exit", 0, train, next_station, segment))
             /\ UNCHANGED <<cfg, service_periods, active_trains, waiting_demand,
                            passenger_demand, timetables, active_headway,
                            trains_to_withdraw_count, run_state>>
        ELSE /\ event_queue' = schedule_event(queue,
                    Event(reschedule_segment_enter_time(event, queue), "segment_enter", 0,
                          train, next_station, segment))
             /\ UNCHANGED <<cfg, service_periods, trains, active_trains, platforms,
                            waiting_demand, segments, passenger_demand, timetables,
                            active_headway, trains_to_withdraw_count, run_state>>

\* a segment_exit handler whose arrival is at the station the segment
\* starts from
segment_exit_arrives_at_start(event, queue) ==
    /\ segments' = [segments EXCEPT ![event.segment] = exit(@, event.train, event.time)]
    /\ event_queue' = schedule_event(queue,
           Event(event.time, "train_arrival", 0, event.train, event.segment[1], NoSegment))
    /\ UNCHANGED <<cfg, service_periods, trains, active_trains, platforms, waiting_demand,
                   passenger_demand, timetables, active_headway,
                   trains_to_withdraw_count, run_state>>

\* a segment_exit handler that frees the segment and schedules no arrival
segment_exit_without_arrival(event, queue) ==
    /\ segments' = [segments EXCEPT ![event.segment] = exit(@, event.train, event.time)]
    /\ event_queue' = queue
    /\ UNCHANGED <<cfg, service_periods, trains, active_trains, platforms, waiting_demand,
                   passenger_demand, timetables, active_headway,
                   trains_to_withdraw_count, run_state>>

handle_segment_exit(event, queue) ==
    /\ segments' = [segments EXCEPT ![event.segment] = exit(@, event.train, event.time)]
    /\ event_queue' = schedule_event(queue,
           Event(event.time, "train_arrival", 0, event.train, event.station, NoSegment))
    /\ UNCHANGED <<cfg, service_periods, trains, active_trains, platforms, waiting_demand,
                   passenger_demand, timetables, active_headway,
                   trains_to_withdraw_count, run_state>>


\* the segment_enter conflict check of _handle_insertion
insertion_conflicts(event, queue) ==
    LET conflicting == get_event_by_type(queue, "segment_enter", event.segment)
    IN  conflicting # NoEvent /\ conflicting.time = event.time

\* the time after the clearance of the northbound platform of station 1 for
\* which _handle_insertion re-enqueues the insertion, or NoTime when the
\* check lets the insertion go on
platform_wait_time(event, queue, metrics) ==
    LET departure_events ==
            {e.time : e \in {x \in EventsOfType(queue, "train_departure") :
                        x.station = 1 /\ trains[x.train].direction = "northbound"}}
        buffer_time == IF CongestionAbove(metrics, 5) THEN 60 ELSE 30
        required_time == SeqMin(departure_events) + buffer_time * MsPerSecond
    IN  IF platforms[1]["northbound"] # 0 /\ departure_events # {}
            /\ required_time > event.time
        THEN required_time
        ELSE NoTime

\* a retry of the insertion at the time of the insertion itself
insertion_retry_at_once(event, queue, adaptive_headway) == event.time

\* the time for which _handle_insertion re-enqueues an insertion that
\* TrackSegment.enter refused: after the segment_exit found for the segment,
\* or the fallback after the event
insertion_reschedule_time(event, queue, adaptive_headway) ==
    LET conflicting_exit_event == get_event_by_type(queue, "segment_exit", event.segment)
    IN  IF conflicting_exit_event # NoEvent /\ conflicting_exit_event.train # 0
        THEN conflicting_exit_event.time + adaptive_headway
        ELSE event.time + adaptive_headway

handle_insertion(event, queue) ==
    LET train == event.train
        segment == event.segment
        metrics == calculate_system_congestion_metrics(queue, trains, active_trains)
        \* minutes = headway * multiplier / 10
        adaptive_headway == active_headway * metrics.recommended_headway_multiplier * 6000
        wait_time == platform_wait_time(event, queue, metrics)
        arrival_time == event.time + InsertionTraversalSeconds * MsPerSecond
        inserting == [trains EXCEPT ![train].status = "insertion",
                                    ![train].direction = "northbound"]
        required_insertion_time ==
            insertion_reschedule_time(event, queue, adaptive_headway)
        rescheduled == schedule_event(queue,
                           Event(required_insertion_time, "train_insertion", 0, train, 0,
                                 segment))
    IN  IF insertion_conflicts(event, queue)
        THEN /\ event_queue' = schedule_event(queue,
                    Event(event.time + adaptive_headway, "train_insertion", 0, train, 0,
                          segment))
             /\ UNCHANGED <<cfg, service_periods, trains, active_trains, platforms,
                            waiting_demand, segments, passenger_demand, timetables,
                            active_headway, trains_to_withdraw_count, run_state>>
        ELSE IF wait_time # NoTime
        THEN /\ event_queue' = schedule_event(queue,
                    Event(wait_time, "train_insertion", 0, train, 0, segment))
             /\ UNCHANGED <<cfg, service_periods, trains, active_trains, platforms,
                            waiting_demand, segments, passenger_demand, timetables,
                            active_headway, trains_to_withdraw_count, run_state>>
        ELSE IF enter_succeeds(segments[segment])
        THEN /\ segments' = [segments EXCEPT ![segment] = enter(@, train, event.time)]
             /\ trains' = [inserting EXCEPT
                    ![train].last_departure_time = event.time,
                    ![train].current_journey_travel_time = InsertionTraversalSeconds,
                    ![train].arrival_time = arrival_time]
             /\ event_queue' = schedule_event(queue,
                    Event(arrival_time, "segment_exit", 0, train, 1, segment))
             /\ UNCHANGED <<cfg, service_periods, active_trains, platforms, waiting_demand,
                            passenger_demand, timetables, active_headway,
                            trains_to_withdraw_count, run_state>>
        ELSE /\ trains' = inserting
             \* the safety check replaces the queue by an empty PriorityQueue
             /\ event_queue' = IF event.time = required_insertion_time THEN <<>>
                               ELSE rescheduled
             /\ UNCHANGED <<cfg, service_periods, active_trains, platforms, waiting_demand,
                            segments, passenger_demand, timetables, active_headway,
                            trains_to_withdraw_count, run_state>>

-----------------------------------------------------------------------------
(* Simulation.run: the main loop of one scheme *)

\* the loop condition of Simulation.run
LoopCondition == current_time < EndTime /\ event_queue # <<>>

\* a dispatch that does not compare the event with the end time
DispatchesPastEnd(event_type) ==
    /\ run_state = "running"
    /\ LoopCondition
    /\ HeapTop(event_queue).event_type = event_type
    /\ current_time' = HeapTop(event_queue).time
    /\ last_event' = HeapTop(event_queue)

\* the loop pops an event that it dispatches to a handler
Dispatches(event_type) ==
    /\ run_state = "running"
    /\ LoopCondition
    /\ HeapTop(event_queue).time < EndTime
    /\ HeapTop(event_queue).event_type = event_type
    /\ current_time' = HeapTop(event_queue).time
    /\ last_event' = HeapTop(event_queue)

ServicePeriodChange ==
    /\ Dispatches("service_period_change")
    /\ handle_service_period_change(HeapTop(event_queue), HeapPop(event_queue))

TrainArrival ==
    /\ Dispatches("train_arrival")
    /\ handle_arrival(HeapTop(event_queue), HeapPop(event_queue))

TrainDeparture ==
    /\ Dispatches("train_departure")
    /\ handle_departure(HeapTop(event_queue), HeapPop(event_queue))

SegmentEnter ==
    /\ Dispatches("segment_enter")
    /\ handle_segment_enter(HeapTop(event_queue), HeapPop(event_queue))

SegmentExit ==
    /\ Dispatches("segment_exit")
    /\ handle_segment_exit(HeapTop(event_queue), HeapPop(event_queue))

Turnaround ==
    /\ Dispatches("turnaround")
    /\ handle_turnaround(HeapTop(event_queue), HeapPop(event_queue))

TrainInsertion ==
    /\ Dispatches("train_insertion")
    /\ handle_insertion(HeapTop(event_queue), HeapPop(event_queue))

\* an event at or past the end time: the clock advances, no handler runs
SkipPastEnd ==
    /\ run_state = "running"
    /\ LoopCondition
    /\ HeapTop(event_queue).time >= EndTime
    /\ current_time' = HeapTop(event_queue).time
    /\ last_event' = HeapTop(event_queue)
    /\ event_queue' = HeapPop(event_queue)
    /\ UNCHANGED <<cfg, service_periods, trains, active_trains, platforms, waiting_demand,
                   segments, passenger_demand, timetables, active_headway,
                   trains_to_withdraw_count, run_state>>

\* the loop condition fails: the run of the scheme is over
RunCompleted ==
    /\ run_state = "running"
    /\ ~LoopCondition
    /\ run_state' = "completed"
    /\ UNCHANGED <<cfg, service_periods, current_time, event_queue, last_event, trains,
                   active_trains, platforms, waiting_demand, segments, passenger_demand,
                   timetables, active_headway, trains_to_withdraw_count>>

Next ==
    \/ ServicePeriodChange
    \/ TrainArrival
    \/ TrainDeparture
    \/ SegmentEnter
    \/ SegmentExit
    \/ Turnaround
    \/ TrainInsertion
    \/ SkipPastEnd
    \/ RunCompleted

-----------------------------------------------------------------------------
(* The configurations explored *)

Line(distance) == [i \in 1..(NumStations - 1) |-> distance]

SkipStopPattern ==
    [s \in Stations |-> IF is_terminus(s) THEN "AB" ELSE IF s % 2 = 0 THEN "A" ELSE "B"]

Config(scheme, distance, maxSpeed, dwellTime, turnaroundTime, maxCapacity, periods, demand) ==
    [scheme |-> scheme, pattern |-> SkipStopPattern, distances |-> Line(distance),
     maxSpeed |-> maxSpeed, acceleration |-> 1, deceleration |-> 1,
     dwellTime |-> dwellTime, turnaroundTime |-> turnaroundTime,
     maxCapacity |-> maxCapacity, periods |-> periods, demand |-> demand]

Period(start_hour, train_count) == [START_HOUR |-> start_hour, TRAIN_COUNT |-> train_count]

Row(origin, destination, arrival_time, passenger_count) ==
    [origin |-> origin, destination |-> destination, arrival_time |-> arrival_time,
     passenger_count |-> passenger_count]

\* the service periods explored: a first period at the default start hour,
\* a period that adds trains, a period that withdraws trains
PeriodSets ==
    {<<Period(StartHour, n)>> : n \in 1..MaxTrains}
        \cup {<<Period(6, 1), Period(12, n)>> : n \in 2..MaxTrains}
        \cup {<<Period(6, MaxTrains), Period(14, 1)>>}

\* rows of the passenger flow table, by arrival time
DemandRows ==
    <<Row(1, 3, 6 * MsPerHour, 6), Row(2, 3, 6 * MsPerHour, 6),
      Row(NumStations, 2, 12 * MsPerHour, 12), Row(1, NumStations, 21 * MsPerHour, 6)>>

RECURSIVE RowsOf(_, _)
RowsOf(S, i) ==
    IF i > Len(DemandRows) THEN <<>>
    ELSE (IF i \in S THEN <<DemandRows[i]>> ELSE <<>>) \o RowsOf(S, i + 1)

DemandLists ==
    {RowsOf(S, 1) : S \in {T \in SUBSET (1..Len(DemandRows)) : Cardinality(T) <= MaxGroups}}

\* Simulation._initialize_service_periods reads trains[1] for SKIP-STOP
Initializes(c) == c.scheme = "SKIP-STOP" => MaxTrainCount(c.periods) >= 2

\* a line of long segments, run over the whole day
TrunkConfigs ==
    {c \in {Config(scheme, 23500, 60, dwellTime, 60, 10, periods, demand) :
                scheme \in {"REGULAR", "SKIP-STOP"}, dwellTime \in {30, 120},
                periods \in PeriodSets, demand \in DemandLists} : Initializes(c)}

\* a line of very short segments, whose loop time gives a headway of 0
ShortConfigs ==
    {Config("SKIP-STOP", 10, 40, 0, 0, 10, <<Period(21, 1), Period(22, 3)>>, <<>>)}

Configs == TrunkConfigs \cup ShortConfigs

Init == \E c \in Configs : InitFor(c)

Spec == Init /\ [][Next]_vars

-----------------------------------------------------------------------------
(* Simulation.initialize up to and including _initialize_passengers_demand,  *)
(* over the station-type patterns and the rows of the passenger flow table   *)

\* the Passenger_Demand that the object loop of _initialize_passengers_demand
\* appends: no transfer station yet, direction toward the destination
DemandObject(c, row) ==
    [Passenger_Demand(c, row) EXCEPT
        !.transfer_station_id = 0,
        !.direction = direction_toward(row.origin, row.destination)]

\* the groups for which int(demand.find_nearest_transfer(stations)) raises:
\* TRANSFER groups for which find_nearest_transfer returns None
TransferUnassignable(c) ==
    {g \in 1..Len(c.demand) :
        /\ trip_type_of(c, c.demand[g].origin, c.demand[g].destination) = "TRANSFER"
        /\ find_nearest_transfer(c, c.demand[g].origin, c.demand[g].destination) = 0}

\* the state of Simulation.initialize after _initialize_service_periods
BeforeDemand(c) ==
    /\ cfg = c
    /\ service_periods = InitServicePeriods(c)
    /\ current_time = StartTime
    /\ event_queue = ScheduleAll(<<>>, PeriodEvents(c))
    /\ last_event = NoEvent
    /\ trains = InitTrains(c)
    /\ active_trains = <<>>
    /\ platforms = [s \in Stations |-> [northbound |-> 0, southbound |-> 0]]
    /\ waiting_demand = [s \in Stations |-> <<>>]
    /\ segments = [seg \in SegmentIds |-> TrackSegment]
    /\ passenger_demand = <<>>
    /\ timetables = <<>>
    /\ active_headway = 0
    /\ trains_to_withdraw_count = 0
    /\ run_state = "initializing"

\* Simulation._initialize_passengers_demand: the objects, then the loop that
\* files every group at its origin and gives the TRANSFER groups their
\* transfer station and direction.  int(None) raises for a TRANSFER group
\* without a transfer station; the exception ends the run of the scheme and
\* leaves the groups from that one on as the object loop made them.
InitializePassengersDemand ==
    /\ run_state = "initializing"
    /\ LET failing == TransferUnassignable(cfg)
           first == IF failing = {} THEN Len(cfg.demand) + 1 ELSE SeqMin(failing)
       IN  /\ passenger_demand' =
                  [g \in 1..Len(cfg.demand) |->
                      IF g < first THEN Passenger_Demand(cfg, cfg.demand[g])
                      ELSE DemandObject(cfg, cfg.demand[g])]
           /\ waiting_demand' =
                  [s \in Stations |->
                      SelectSeq([g \in 1..Len(cfg.demand) |-> g],
                                LAMBDA g : /\ cfg.demand[g].origin = s
                                           /\ g < first \/ (g = first /\ s = 1))]
           /\ run_state' = IF failing = {} THEN "running" ELSE "failed"
    /\ UNCHANGED <<cfg, service_periods, current_time, event_queue, last_event, trains,
                   active_trains, platforms, segments, timetables, active_headway,
                   trains_to_withdraw_count>>

\* the station-type patterns of the line
Patterns == [Stations -> {"A", "B", "AB"}]

\* one row, or two rows, of the passenger flow table
PatternDemandLists ==
    {<<Row(o, d, 6 * MsPerHour, 6)>> : o \in Stations, d \in Stations}
        \cup {<<Row(1, NumStations, 6 * MsPerHour, 6), Row(o, d, 6 * MsPerHour, 6)>> :
                  o \in Stations, d \in Stations}

PatternConfigs ==
    {[Config(scheme, 23500, 60, 30, 60, 10, <<Period(6, 2)>>, demand)
         EXCEPT !.pattern = pattern] :
        scheme \in {"REGULAR", "SKIP-STOP"}, pattern \in Patterns,
        demand \in PatternDemandLists}

DemandInit == \E c \in PatternConfigs : BeforeDemand(c)

DemandNext == InitializePassengersDemand

DemandSpec == DemandInit /\ [][DemandNext]_vars

-----------------------------------------------------------------------------
(* Simulation.run: the loop over the schemes *)

\* self.schemes of Simulation.run
schemes == <<"SKIP-STOP", "REGULAR">>

\* the scheme after the one that is run, "" after the last
scheme_after(scheme) ==
    IF \E i \in 1..(Len(schemes) - 1) : schemes[i] = scheme
    THEN schemes[(CHOOSE i \in 1..(Len(schemes) - 1) : schemes[i] = scheme) + 1]
    ELSE ""

\* whether the for loop of Simulation.run comes to its next iteration: the
\* try block of the scheme ended without an exception; the except clause ends
\* with a break
scheme_loop_continues(state) == state = "completed"

\* the next iteration of the for loop, up to _initialize_service_periods:
\* current_time = start_time, scheme_type = the next scheme, and
\* Simulation.initialize on the same configuration
NextScheme ==
    /\ scheme_loop_continues(run_state)
    /\ scheme_after(cfg.scheme) # ""
    /\ LET c == [cfg EXCEPT !.scheme = scheme_after(cfg.scheme)]
       IN  /\ cfg' = c
           /\ service_periods' = InitServicePeriods(c)
           /\ current_time' = StartTime
           /\ event_queue' = ScheduleAll(<<>>, PeriodEvents(c))
           /\ last_event' = NoEvent
           /\ trains' = InitTrains(c)
           /\ active_trains' = <<>>
           /\ platforms' = [s \in Stations |-> [northbound |-> 0, southbound |-> 0]]
           /\ waiting_demand' = [s \in Stations |-> <<>>]
           /\ segments' = [seg \in SegmentIds |-> TrackSegment]
           /\ passenger_demand' = <<>>
           /\ timetables' = <<>>
           /\ active_headway' = 0
           /\ trains_to_withdraw_count' = 0
           /\ run_state' = "initializing"

\* a pattern without a station of type AB
AlternatingPattern == [s \in Stations |-> IF s % 2 = 1 THEN "A" ELSE "B"]

\* configurations run under both schemes
SchemeConfigs ==
    {[Config(schemes[1], 23500, 60, 30, 60, 10, <<Period(6, 2)>>, demand)
         EXCEPT !.pattern = pattern] :
        pattern \in {SkipStopPattern, AlternatingPattern},
        demand \in {<<>>, <<Row(2, 3, 6 * MsPerHour, 6)>>,
                    <<Row(1, 3, 6 * MsPerHour, 6)>>}}

SchemesInit == \E c \in SchemeConfigs : BeforeDemand(c)

SchemesNext == InitializePassengersDemand \/ Next \/ NextScheme

SchemesSpec == SchemesInit /\ [][SchemesNext]_vars

\* A line whose termini are not AB stations: one AB station next to the
\* northern terminus, of type A, and stations of type B south of it
MixedPattern ==
    [s \in Stations |-> IF s = 1 THEN "A" ELSE IF s = 2 THEN "AB" ELSE "B"]

\* skip-stop runs over such lines, with and without a withdrawal, and rows
\* whose groups ride to or from a terminus
TerminusConfigs ==
    {[Config("SKIP-STOP", 23500, 60, 30, 60, 10, periods, demand)
          EXCEPT !.pattern = MixedPattern] :
        periods \in {<<Period(6, 2)>>, <<Period(6, 2), Period(14, 1)>>},
        demand \in {<<Row(1, NumStations, 6 * MsPerHour, 6)>>,
                    <<Row(NumStations, 1, 12 * MsPerHour, 4)>>,
                    <<Row(3, NumStations, 6 * MsPerHour, 5),
                      Row(NumStations, 1, 12 * MsPerHour, 4)>>}}
    \cup
    {[Config("SKIP-STOP", 23500, 60, 30, 60, 10, periods, demand)
          EXCEPT !.pattern = AlternatingPattern] :
        periods \in {<<Period(6, 2)>>, <<Period(6, 2), Period(14, 1)>>},
        demand \in {<<Row(1, 3, 6 * MsPerHour, 6)>>,
                    <<Row(4, 2, 12 * MsPerHour, 4)>>}}

TerminusInit == \E c \in TerminusConfigs : InitFor(c)

TerminusSpec == TerminusInit /\ [][Next]_vars

\* Service days on which the train count goes down and, an hour later, up
\* again or stays
RegulationPeriodSets ==
    {<<Period(6, 2), Period(12, 1), Period(13, 2)>>,
     <<Period(6, 3), Period(12, 1), Period(13, 3)>>,
     <<Period(6, 3), Period(12, 2), Period(13, 2)>>,
     <<Period(6, 2), Period(12, 1)>>}

RegulationConfigs ==
    {Config(scheme, 23500, 60, 30, 60, 10, periods, <<>>) :
        scheme \in {"REGULAR", "SKIP-STOP"}, periods \in RegulationPeriodSets}

RegulationInit == \E c \in RegulationConfigs : InitFor(c)

RegulationSpec == RegulationInit /\ [][Next]_vars

-----------------------------------------------------------------------------
(* Properties of segments, platforms and passengers *)

\* the trains between a successful entry of a segment and their segment_exit
TrainsInSegment(queue, segment) ==
    {queue[i].train : i \in {j \in 1..Len(queue) :
                                /\ queue[j].event_type = "segment_exit"
                                /\ queue[j].segment = segment}}

SegmentsExclusive ==
    \A s \in SegmentIds :
        /\ Cardinality(TrainsInSegment(event_queue, s)) <= 1
        /\ \A t \in TrainsInSegment(event_queue, s) : segments[s].occupied_by = t

EntryOnlyIfUnoccupied ==
    \A s \in SegmentIds :
        /\ (segments'[s].occupied_by # segments[s].occupied_by
                /\ segments'[s].occupied_by # 0) => segments[s].occupied_by = 0
        /\ (TrainsInSegment(event_queue', s) \ TrainsInSegment(event_queue, s)) # {}
               => segments[s].occupied_by = 0

\* C1: every segment holds at most one train between a successful entry and
\* that train's segment_exit, the train being the recorded occupant, and an
\* entry (segment_enter or train_insertion) succeeds only on a segment that
\* is unoccupied
C1_SegmentHoldsOneTrain == []SegmentsExclusive /\ [][EntryOnlyIfUnoccupied]_vars

\* an insertion reached TrackSegment.enter on a segment that another train
\* occupies, and was refused
C1_EntryRefused ==
    /\ last_event.event_type = "train_insertion"
    /\ trains[last_event.train].status = "insertion"
    /\ segments[last_event.segment].occupied_by \notin {0, last_event.train}
    /\ last_event.train \notin TrainsInSegment(event_queue, last_event.segment)

\* the trains present at a platform: arrived, and neither departed nor turned
\* around nor withdrawn
TrainsAtPlatform(station, direction) ==
    {t \in DOMAIN trains :
        /\ trains[t].direction = direction
        /\ \E i \in 1..Len(event_queue) :
              /\ event_queue[i].train = t
              /\ event_queue[i].station = station
              /\ \/ event_queue[i].event_type = "turnaround"
                 \/ event_queue[i].event_type = "train_departure" /\ ~is_terminus(station)}

\* the loop is about to pop an event
PopDue == run_state = "running" /\ LoopCondition

\* the loop is about to dispatch an event of the type to its handler
HandlerDue(event_type) ==
    /\ PopDue
    /\ HeapTop(event_queue).time < EndTime
    /\ HeapTop(event_queue).event_type = event_type

\* C2: at most one train is present at each (station, direction) platform,
\* and no train_arrival is processed while the platform slot holds a
\* different train
C2_PlatformHoldsOneTrain ==
    /\ \A s \in Stations : \A d \in {"northbound", "southbound"} :
           Cardinality(TrainsAtPlatform(s, d)) <= 1
    /\ HandlerDue("train_arrival") =>
           LET event == HeapTop(event_queue)
           IN  platforms[event.station][trains[event.train].direction]
                   \in {0, event.train}

RECURSIVE BoardedSum(_)
BoardedSum(list) ==
    IF list = <<>> THEN 0
    ELSE passenger_demand[Head(list)].passenger_count + BoardedSum(Tail(list))

\* C3: for every train, current_passenger_count is the sum of passenger_count
\* over the groups of boarded_demand, and lies between 0 and the capacity
C3_PassengerCount ==
    \A t \in DOMAIN trains :
        /\ trains[t].current_passenger_count = BoardedSum(trains[t].boarded_demand)
        /\ trains[t].current_passenger_count >= 0
        /\ trains[t].current_passenger_count <= trains[t].capacity

\* a train left a station with passengers on board and without a waiting
\* group of its direction, for which it had no room
C3_GroupLeftForCapacity ==
    /\ last_event.event_type = "train_departure"
    /\ trains[last_event.train].last_departure_time = last_event.time
    /\ trains[last_event.train].current_passenger_count > 0
    /\ \E i \in 1..Len(waiting_demand[last_event.station]) :
          LET demand == passenger_demand[waiting_demand[last_event.station][i]]
              train == trains[last_event.train]
          IN  /\ demand.status = "waiting_at_origin"
              /\ demand.arrival_time <= last_event.time
              /\ demand.direction = train.direction
              /\ demand.passenger_count <= train.capacity
              /\ demand.passenger_count > train.capacity - train.current_passenger_count

\* the statuses a group goes through, in order
StatusRank(status) ==
    CASE status = "waiting_at_origin" -> 1
      [] status = "in_transit_leg1" -> 2
      [] status = "waiting_for_transfer" -> 3
      [] status = "in_transit_leg2" -> 4
      [] status = "completed" -> 5

\* one handler moves a group one status forward; an exchange that sets a
\* group down at its transfer station may take it up again.  DIRECT groups
\* go from the first leg to completed.
StatusAdvances(before, after) ==
    LET r == StatusRank(before.status)
        q == StatusRank(after.status)
    IN  \/ q = r
        \/ r = 1 /\ q = 2
        \/ before.trip_type = "DIRECT" /\ r = 2 /\ q = 5
        \/ before.trip_type = "TRANSFER" /\ r = 2 /\ q \in {3, 4}
        \/ before.trip_type = "TRANSFER" /\ r = 3 /\ q = 4
        \/ before.trip_type = "TRANSFER" /\ r = 4 /\ q = 5

DemandTimesOrdered ==
    \A g \in DOMAIN passenger_demand :
        LET demand == passenger_demand[g]
        IN  /\ (demand.completion_time # NoTime /\ demand.boarding_time # NoTime)
                   => demand.completion_time >= demand.boarding_time
            /\ demand.wait_time >= 0
            /\ demand.travel_time >= 0

\* C4: the status of a group only advances along waiting_at_origin ->
\* in_transit_leg1 -> (waiting_for_transfer -> in_transit_leg2 ->) completed,
\* never back, and completion_time >= boarding_time, wait_time >= 0 and
\* travel_time >= 0 whenever they are set
C4_StatusAdvances ==
    /\ []DemandTimesOrdered
    /\ [][\A g \in DOMAIN passenger_demand :
              StatusAdvances(passenger_demand[g], passenger_demand'[g])]_vars

\* a TRANSFER group went through both legs
C4_TransferCompleted ==
    \E g \in DOMAIN passenger_demand :
        /\ passenger_demand[g].trip_type = "TRANSFER"
        /\ passenger_demand[g].status = "completed"
        /\ passenger_demand[g].departure_from_transfer_time # NoTime
        /\ passenger_demand[g].travel_time > 0

-----------------------------------------------------------------------------
(* Properties of the event queue and of the main loop *)

\* C5: the times of the events that the loop pops never decrease, and no
\* handler schedules an event earlier than the event that it processes
C5_EventTimesNonDecreasing ==
    [][/\ last_event # NoEvent => last_event'.time >= last_event.time
       /\ \A e \in QueueEvents(event_queue') \ QueueEvents(event_queue) :
              e.time >= last_event'.time]_vars

\* a departure found its way blocked and was scheduled again, later
C5_DepartureRescheduledLater ==
    /\ last_event.event_type = "train_departure"
    /\ \E i \in 1..Len(event_queue) :
          /\ event_queue[i].event_type = "train_departure"
          /\ event_queue[i].train = last_event.train
          /\ event_queue[i].station = last_event.station
          /\ event_queue[i].time > last_event.time

\* C6: the clock never moves backward, from its initial value through every
\* popped event
C6_ClockNeverMovesBack == [][current_time' >= current_time]_vars

\* the order of the event types among events of one time
EventTypeOrder ==
    <<"service_period_change", "train_departure", "segment_exit", "train_arrival",
      "turnaround", "segment_enter", "train_insertion">>

EventTypeOrdinal(event_type) ==
    CHOOSE k \in 1..Len(EventTypeOrder) : EventTypeOrder[k] = event_type

\* C7: every pop returns a pending event of the smallest time and, among the
\* pending events of that time, of the smallest event-type ordinal
C7_PopReturnsSmallest ==
    [][PopDue =>
          /\ last_event' \in QueueEvents(event_queue)
          /\ \A e \in QueueEvents(event_queue) :
                \/ last_event'.time < e.time
                \/ /\ last_event'.time = e.time
                   /\ EventTypeOrdinal(last_event'.event_type)
                          <= EventTypeOrdinal(e.event_type)]_vars

\* an event was popped ahead of a pending event of another train with the
\* same time and a larger ordinal
C7_TieBrokenByType ==
    /\ last_event.train # 0
    /\ \E i \in 1..Len(event_queue) :
          /\ event_queue[i].time = last_event.time
          /\ event_queue[i].train \notin {0, last_event.train}
          /\ EventTypeOrdinal(event_queue[i].event_type)
                 > EventTypeOrdinal(last_event.event_type)

\* C8: an event at or past the end time is given to no handler: it only
\* advances the clock and ends the loop, leaving trains, stations, segments,
\* demand and timetable as they are; and the loop ends when the queue is
\* empty
C8_NoDispatchPastEnd ==
    [][IF PopDue
       THEN HeapTop(event_queue).time >= EndTime =>
                /\ current_time' = HeapTop(event_queue).time
                /\ ~LoopCondition'
                /\ UNCHANGED <<trains, active_trains, platforms, waiting_demand, segments,
                               passenger_demand, timetables, active_headway,
                               trains_to_withdraw_count>>
       ELSE /\ run_state' = "completed"
            /\ UNCHANGED <<current_time, event_queue, last_event, trains, active_trains,
                           platforms, waiting_demand, segments, passenger_demand,
                           timetables, active_headway, trains_to_withdraw_count>>]_vars

\* the loop popped an event at or past the end time and ended
C8_PastEndEventPopped ==
    /\ run_state = "completed"
    /\ last_event.time >= EndTime
    /\ current_time = last_event.time
    /\ timetables # <<>>

\* C9: every run of one scheme terminates: no event is enqueued again at its
\* own time forever, so that no iteration of the loop leaves the queue, the
\* clock and all the rest as it found them
C9_RunTerminates == run_state = "running" => ENABLED <<Next>>_vars

\* the events of a queue with their multiplicities
QueueBag(queue) ==
    [e \in QueueEvents(queue) |-> Cardinality({i \in 1..Len(queue) : queue[i] = e})]

\* the departure that is due finds the next segment of the train's direction
\* unoccupied and the platform of that direction at the next station empty
DepartureWayFree ==
    LET event == HeapTop(event_queue)
        direction == trains[event.train].direction
        next_station == IF direction = "southbound" THEN event.station + 1
                        ELSE event.station - 1
    IN  /\ segments[<<event.station, next_station>>].occupied_by = 0
        /\ platforms[next_station][direction] = 0

\* the queue only lost the departure and got a train_departure of the same
\* train and station
DepartureOnlyRequeued ==
    LET event == HeapTop(event_queue)
    IN  \E e \in QueueEvents(event_queue') :
           /\ e.event_type = "train_departure"
           /\ e.train = event.train
           /\ e.station = event.station
           /\ QueueBag(event_queue') = QueueBag(Append(HeapPop(event_queue), e))

\* C10: a train_departure takes effect only when the next segment is
\* unoccupied and the next platform empty; otherwise the handler only
\* enqueues a train_departure of the same train and station again and changes
\* no train, station, segment, demand or timetable state
C10_DepartureNeedsFreeWay ==
    [][(HandlerDue("train_departure") /\ ~DepartureWayFree) =>
          /\ DepartureOnlyRequeued
          /\ UNCHANGED <<trains, active_trains, platforms, waiting_demand, segments,
                         passenger_demand, timetables>>]_vars

\* a departure was refused because the platform ahead was held while the
\* segment ahead was free
C10_DepartureHeldByPlatform ==
    /\ last_event.event_type = "train_departure"
    /\ trains[last_event.train].last_departure_time # last_event.time
    /\ LET direction == trains[last_event.train].direction
           next_station == IF direction = "southbound" THEN last_event.station + 1
                           ELSE last_event.station - 1
       IN  /\ platforms[next_station][direction] # 0
           /\ segments[<<last_event.station, next_station>>].occupied_by = 0
    /\ \E i \in 1..Len(event_queue) :
          /\ event_queue[i].event_type = "train_departure"
          /\ event_queue[i].train = last_event.train

-----------------------------------------------------------------------------
(* Insertion, boarding and withdrawal *)

\* the insertion that is due finds its segment unoccupied and no
\* segment_enter of that segment pending at its own time
InsertionWayFree ==
    LET event == HeapTop(event_queue)
    IN  /\ segments[event.segment].occupied_by = 0
        /\ \A e \in QueueEvents(HeapPop(event_queue)) :
               ~(/\ e.event_type = "segment_enter"
                 /\ e.segment = event.segment
                 /\ e.time = event.time)

\* the queue only lost the insertion and got a train_insertion of the same
\* train at a later time
InsertionRequeuedLater ==
    LET event == HeapTop(event_queue)
    IN  \E e \in QueueEvents(event_queue') :
           /\ e.event_type = "train_insertion"
           /\ e.train = event.train
           /\ e.time > event.time
           /\ QueueBag(event_queue') = QueueBag(Append(HeapPop(event_queue), e))

\* C11: a train_insertion places its train on the depot segment (2, 1) only
\* when that segment is unoccupied and no segment_enter of the segment is
\* pending at the same time; otherwise the insertion is enqueued again for a
\* later time and the occupant of the segment stays
C11_InsertionNeedsFreeSegment ==
    [][HandlerDue("train_insertion") =>
          LET event == HeapTop(event_queue)
          IN  /\ event.segment = InsertionSegment
              /\ segments'[event.segment] # segments[event.segment] =>
                     /\ InsertionWayFree
                     /\ segments'[event.segment].occupied_by = event.train
              /\ ~InsertionWayFree =>
                     /\ segments'[event.segment] = segments[event.segment]
                     /\ InsertionRequeuedLater]_vars

\* an insertion that found the depot segment held by another train waits in
\* the queue for a time after that train's segment_exit
C11_InsertionWaitsForExit ==
    /\ last_event.event_type = "train_insertion"
    /\ segments[InsertionSegment].occupied_by \notin {0, last_event.train}
    /\ \E i \in 1..Len(event_queue) : \E j \in 1..Len(event_queue) :
          /\ event_queue[i].event_type = "train_insertion"
          /\ event_queue[i].train = last_event.train
          /\ event_queue[j].event_type = "segment_exit"
          /\ event_queue[j].segment = InsertionSegment
          /\ event_queue[i].time >= event_queue[j].time
          /\ event_queue[i].time > last_event.time

\* the group waits for a train, at its origin or at its transfer station
IsWaiting(demand) == demand.status \in {"waiting_at_origin", "waiting_for_transfer"}

\* the station at which a waiting group waits
WaitingStation(demand) ==
    IF demand.status = "waiting_at_origin" THEN demand.origin_station_id
    ELSE demand.transfer_station_id

\* the step boards the group: from waiting to the leg that follows
Boards(before, after) ==
    \/ before.status = "waiting_at_origin" /\ after.status = "in_transit_leg1"
    \/ before.status = "waiting_for_transfer" /\ after.status = "in_transit_leg2"

RECURSIVE GroupSum(_, _)
\* the passengers of the groups of a list
GroupSum(demand, list) ==
    IF list = <<>> THEN 0
    ELSE demand[Head(list)].passenger_count + GroupSum(demand, Tail(list))

\* C12: boarding is whole-group atomic: a waiting group is boarded only with
\* its whole passenger_count within the capacity that the train has left, no
\* group is split, a group that is not boarded stays in the waiting list of
\* its station with status and times unchanged, and a group larger than the
\* capacity of the trains is never boarded
C12_WholeGroupBoarding ==
    /\ [](\A g \in DOMAIN passenger_demand :
             passenger_demand[g].passenger_count > cfg.maxCapacity =>
                 /\ passenger_demand[g].status = "waiting_at_origin"
                 /\ passenger_demand[g].boarding_time = NoTime)
    /\ [][\A g \in DOMAIN passenger_demand :
              LET before == passenger_demand[g]
                  after == passenger_demand'[g]
              IN  /\ after.passenger_count = before.passenger_count
                  /\ Boards(before, after) =>
                         /\ after.train_id \in DOMAIN trains
                         /\ InSeq(trains'[after.train_id].boarded_demand, g)
                         /\ ~InSeq(waiting_demand'[WaitingStation(before)], g)
                         /\ trains'[after.train_id].current_passenger_count
                                = GroupSum(passenger_demand',
                                           trains'[after.train_id].boarded_demand)
                         /\ trains'[after.train_id].current_passenger_count
                                <= trains'[after.train_id].capacity
                  /\ (IsWaiting(before) /\ ~Boards(before, after)) =>
                         /\ after = before
                         /\ InSeq(waiting_demand[WaitingStation(before)], g) =>
                                InSeq(waiting_demand'[WaitingStation(before)], g)]_vars

\* a train with room left a station where a group of its direction, larger
\* than the capacity, had arrived and stays in the waiting list
C12_OversizeGroupStays ==
    /\ last_event.event_type = "train_departure"
    /\ trains[last_event.train].last_departure_time = last_event.time
    /\ trains[last_event.train].current_passenger_count < trains[last_event.train].capacity
    /\ \E i \in 1..Len(waiting_demand[last_event.station]) :
          LET demand == passenger_demand[waiting_demand[last_event.station][i]]
          IN  /\ demand.status = "waiting_at_origin"
              /\ demand.arrival_time <= last_event.time
              /\ demand.direction = trains[last_event.train].direction
              /\ demand.passenger_count > trains[last_event.train].capacity

RECURSIVE BoardedMinusAlighted(_)
\* passengers_boarded - passengers_alighted, summed over timetable entries
BoardedMinusAlighted(entries) ==
    IF entries = <<>> THEN 0
    ELSE Head(entries).passengers_boarded - Head(entries).passengers_alighted
             + BoardedMinusAlighted(Tail(entries))

\* C13: passengers are conserved over a full run: when the run has ended, the
\* sum over the timetable entries of passengers_boarded - passengers_alighted
\* is zero, no passenger being aboard a train any more
C13_PassengersConserved ==
    run_state = "completed" =>
        /\ BoardedMinusAlighted(timetables) = 0
        /\ \A t \in DOMAIN trains : trains[t].current_passenger_count = 0

-----------------------------------------------------------------------------
(* Demand initialisation *)

\* the station types as _initialize_stations sets them for the scheme
TypeOf(s) == IF cfg.scheme = "REGULAR" THEN "AB" ELSE cfg.pattern[s]

\* C14: at demand initialisation a group is DIRECT iff the types of its
\* origin and destination are equal or one of them is AB, and TRANSFER
\* otherwise; under REGULAR every group is DIRECT; every TRANSFER group is
\* given a transfer station that is an AB station other than its origin and
\* its destination
C14_TripTypeAndTransfer ==
    \A g \in DOMAIN passenger_demand :
        LET demand == passenger_demand[g]
            origin_type == TypeOf(demand.origin_station_id)
            destination_type == TypeOf(demand.destination_station_id)
        IN  /\ demand.trip_type \in {"DIRECT", "TRANSFER"}
            /\ demand.trip_type = "DIRECT" <=>
                   (origin_type = destination_type \/ origin_type = "AB"
                       \/ destination_type = "AB")
            /\ cfg.scheme = "REGULAR" => demand.trip_type = "DIRECT"
            /\ demand.trip_type = "TRANSFER" =>
                   /\ demand.transfer_station_id \in Stations
                   /\ TypeOf(demand.transfer_station_id) = "AB"
                   /\ demand.transfer_station_id # demand.origin_station_id
                   /\ demand.transfer_station_id # demand.destination_station_id

\* the stations by which a group may transfer
TransferCandidates == {s \in Stations : TypeOf(s) = "AB"}

\* |origin - candidate| + |candidate - destination|
TransferTotal(origin, destination, candidate) ==
    Abs(origin - candidate) + Abs(destination - candidate)

\* the candidate minimises the total and, among the candidates of that total,
\* the distance to the origin
IsNearestTransfer(origin, destination, candidate) ==
    /\ candidate \in TransferCandidates
    /\ \A k \in TransferCandidates :
           LET best == TransferTotal(origin, destination, candidate)
               other == TransferTotal(origin, destination, k)
           IN  /\ best <= other
               /\ other = best => Abs(origin - candidate) <= Abs(origin - k)

\* C16: for every origin, destination and pattern with at least one AB
\* station, find_nearest_transfer returns an AB station that minimises
\* |origin - c| + |c - destination| and, among the minimisers, |origin - c|;
\* the TRANSFER groups of an initialised run carry that station
C16_NearestTransfer ==
    TransferCandidates # {} =>
        /\ \A origin \in Stations : \A destination \in Stations :
               IsNearestTransfer(origin, destination,
                                 find_nearest_transfer(cfg, origin, destination))
        /\ run_state = "running" =>
               \A g \in DOMAIN passenger_demand :
                   passenger_demand[g].trip_type = "TRANSFER" =>
                       IsNearestTransfer(passenger_demand[g].origin_station_id,
                                         passenger_demand[g].destination_station_id,
                                         passenger_demand[g].transfer_station_id)

\* a TRANSFER group was given a transfer station by the tiebreaker: an
\* earlier candidate has the same total and lies farther from the origin
C16_TieBrokenTowardOrigin ==
    /\ run_state = "running"
    /\ \E g \in DOMAIN passenger_demand :
          LET demand == passenger_demand[g]
          IN  /\ demand.trip_type = "TRANSFER"
              /\ \E k \in TransferCandidates :
                     /\ k < demand.transfer_station_id
                     /\ TransferTotal(demand.origin_station_id,
                                      demand.destination_station_id, k)
                            = TransferTotal(demand.origin_station_id,
                                            demand.destination_station_id,
                                            demand.transfer_station_id)
                     /\ Abs(demand.origin_station_id - k)
                            > Abs(demand.origin_station_id - demand.transfer_station_id)

-----------------------------------------------------------------------------
(* The two legs of a TRANSFER group *)

\* the direction from one station to another
Toward(from, to) == IF to > from THEN "southbound" ELSE "northbound"

\* the train stops at the station
StopsAt(train, station) ==
    TypeOf(station) = trains[train].service_type \/ TypeOf(station) = "AB"

\* one step of a TRANSFER group keeps to the protocol of the two legs
TransferStep(g) ==
    LET before == passenger_demand[g]
        after == passenger_demand'[g]
        origin == before.origin_station_id
        transfer == before.transfer_station_id
        destination == before.destination_station_id
        event == last_event'
        second_leg == /\ after.status = "in_transit_leg2"
                      /\ event.station = transfer
                      /\ event.train = after.train_id
                      /\ trains[event.train].direction = Toward(transfer, destination)
                      /\ after.direction = Toward(transfer, destination)
                      /\ StopsAt(event.train, destination)
    IN  \/ after.status = before.status
        \/ /\ before.status = "waiting_at_origin"
           /\ after.status = "in_transit_leg1"
           /\ event.station = origin
           /\ event.train = after.train_id
           /\ trains[event.train].direction = Toward(origin, transfer)
        \/ /\ before.status = "in_transit_leg1"
           /\ event.station = transfer
           /\ event.train = before.train_id
           /\ after.arrival_at_transfer_time # NoTime
           /\ \/ /\ after.status = "waiting_for_transfer"
                 /\ after.direction = Toward(transfer, destination)
                 /\ InSeq(waiting_demand'[transfer], g)
                 /\ ~InSeq(trains'[event.train].boarded_demand, g)
              \/ second_leg
        \/ /\ before.status = "waiting_for_transfer"
           /\ InSeq(waiting_demand[transfer], g)
           /\ second_leg
        \/ /\ before.status = "in_transit_leg2"
           /\ after.status = "completed"
           /\ event.station = destination
           /\ event.train = before.train_id
           /\ StopsAt(event.train, destination)

\* C15: a TRANSFER group boards at its origin only a train that travels
\* toward its transfer station, alights exactly at the transfer station, where
\* it waits in the list with its direction set toward the destination, boards
\* there only a train of that direction that stops at the destination, and is
\* completed only when that train is at the destination
C15_TransferProtocol ==
    [][\A g \in DOMAIN passenger_demand :
          passenger_demand[g].trip_type = "TRANSFER" => TransferStep(g)]_vars

\* a TRANSFER group rides its second leg, against the direction of its first
C15_SecondLegUnderWay ==
    \E g \in DOMAIN passenger_demand :
        LET demand == passenger_demand[g]
        IN  /\ demand.trip_type = "TRANSFER"
            /\ demand.status = "in_transit_leg2"
            /\ demand.train_id \in DOMAIN trains
            /\ InSeq(trains[demand.train_id].boarded_demand, g)
            /\ trains[demand.train_id].direction
                   # Toward(demand.origin_station_id, demand.transfer_station_id)

-----------------------------------------------------------------------------
(* Withdrawal *)

\* the events of the queue that belong to a train
EventsOfTrain(queue, train) ==
    {i \in 1..Len(queue) : queue[i].train = train}

\* a northbound train arrives at station 1 while trains are to be withdrawn
WithdrawalArrival ==
    /\ HandlerDue("train_arrival")
    /\ trains_to_withdraw_count > 0
    /\ HeapTop(event_queue).station = 1
    /\ trains[HeapTop(event_queue).train].direction = "northbound"

\* the step withdraws the train of the event at the head of the queue
Withdraws ==
    LET event == HeapTop(event_queue)
        train == event.train
        entry == timetables'[Len(timetables')]
    IN  /\ InSeq(active_trains, train)
        /\ ~InSeq(active_trains', train)
        /\ Len(active_trains') = Len(active_trains) - 1
        /\ trains[train].is_active
        /\ ~trains'[train].is_active
        /\ trains_to_withdraw_count' = trains_to_withdraw_count - 1
        /\ Len(timetables') = Len(timetables) + 1
        /\ entry.train_id = train
        /\ entry.station_id = 1
        /\ entry.train_status = "inactive"
        /\ entry.arrival_time = event.time
        /\ entry.departure_time = event.time + cfg.dwellTime * MsPerSecond
        /\ Len(event_queue') = Len(event_queue) - 1
        /\ \A e \in QueueEvents(event_queue') :
              /\ e \in QueueEvents(event_queue)
              /\ QueueBag(event_queue')[e] <= QueueBag(event_queue)[e]
        /\ EventsOfTrain(event_queue', train) = {}

\* C17: while trains are to be withdrawn, a northbound train_arrival at
\* station 1 withdraws the arriving train: it leaves the active set, is_active
\* becomes false, trains_to_withdraw_count drops by one, one timetable entry
\* with train_status inactive and departure = arrival + dwell is recorded, and
\* no event is enqueued for the train
C17_WithdrawalOnArrival ==
    [][WithdrawalArrival => Withdraws]_vars

\* a train has been withdrawn and none is left to withdraw
C17_TrainWithdrawn ==
    /\ trains_to_withdraw_count = 0
    /\ \E t \in DOMAIN trains :
          /\ ~trains[t].is_active
          /\ ~InSeq(active_trains, t)
          /\ \E i \in 1..Len(timetables) :
                /\ timetables[i].train_id = t
                /\ timetables[i].train_status = "inactive"

\* every train of the active set has exactly one event pending while the run
\* goes on, and a train outside it has none: no event is ever popped for a
\* train whose is_active is false
InactiveTrainsHaveNoEvents ==
    run_state = "running" =>
        \A t \in DOMAIN trains :
            /\ trains[t].is_active /\ InSeq(active_trains, t)
                  => Cardinality(EventsOfTrain(event_queue, t)) <= 1
            /\ ~trains[t].is_active => EventsOfTrain(event_queue, t) = {}

-----------------------------------------------------------------------------
(* No eligible train leaves a group behind *)

\* the step runs a passenger exchange: every exchange is followed by one
\* timetable entry of its train, station and departure time
ExchangeStep == PopDue /\ Len(timetables') = Len(timetables) + 1

\* a train of a service type serves a station
Serves(service_type, station) ==
    service_type = TypeOf(station) \/ service_type = "AB" \/ TypeOf(station) = "AB"

\* the position of a group in a list, 0 when it is not there
PositionIn(list, g) ==
    IF InSeq(list, g) THEN CHOOSE i \in 1..Len(list) : list[i] = g ELSE 0

\* the group is one the board loop of the exchange goes over: it waits at the
\* station, or the train sets it down here to change trains
Considered(g, train, station) ==
    \/ InSeq(waiting_demand[station], g)
    \/ /\ InSeq(trains[train].boarded_demand, g)
       /\ passenger_demand[g].trip_type = "TRANSFER"
       /\ passenger_demand[g].status = "in_transit_leg1"
       /\ passenger_demand[g].transfer_station_id = station

\* the order in which the board loop goes over the groups: the waiting list,
\* then the groups set down, in the order of the train's list
ConsideredRank(g, train, station) ==
    IF InSeq(waiting_demand[station], g)
    THEN PositionIn(waiting_demand[station], g)
    ELSE Len(waiting_demand[station]) + PositionIn(trains[train].boarded_demand, g)

\* the exchange takes the group up
TakenUp(g, train) ==
    /\ passenger_demand'[g].status \in {"in_transit_leg1", "in_transit_leg2"}
    /\ passenger_demand'[g].status # passenger_demand[g].status
    /\ passenger_demand'[g].train_id = train
    /\ InSeq(trains'[train].boarded_demand, g)

\* the train is eligible for the group: it stops here, travels in the group's
\* direction, serves the group's next required stop and departs at or after
\* the time the group came to the station
EligibleFor(g, train, station, departure_time) ==
    LET before == passenger_demand[g]
        after == passenger_demand'[g]
        service_type == trains[train].service_type
    IN  /\ Considered(g, train, station)
        /\ Serves(service_type, station)
        /\ after.direction = trains[train].direction
        /\ IF before.status = "waiting_at_origin"
           THEN /\ before.arrival_time <= departure_time
                /\ Serves(service_type, IF before.trip_type = "TRANSFER"
                                        THEN before.transfer_station_id
                                        ELSE before.destination_station_id)
           ELSE /\ after.arrival_at_transfer_time <= departure_time
                /\ Serves(service_type, before.destination_station_id)

\* the room on the train when the board loop comes to the group: the room at
\* the end of the exchange and the passengers taken up from this group on
RemainingWhenConsidered(g, train, station) ==
    LET later == SelectSeq([h \in DOMAIN passenger_demand |-> h],
                     LAMBDA h : /\ TakenUp(h, train)
                                /\ ConsideredRank(h, train, station)
                                      >= ConsideredRank(g, train, station))
    IN  trains[train].capacity - trains'[train].current_passenger_count
            + GroupSum(passenger_demand, later)

\* C19: at an exchange at its station where the train stops, travels in the
\* group's direction, can reach the group's next required stop, departs at or
\* after the group's arrival and has room for the whole group when the group
\* is considered, the waiting group is boarded
C19_EligibleGroupBoards ==
    [][ExchangeStep =>
          LET entry == timetables'[Len(timetables')]
              train == entry.train_id
              station == entry.station_id
          IN  \A g \in DOMAIN passenger_demand :
                  /\ EligibleFor(g, train, station, entry.departure_time)
                  /\ RemainingWhenConsidered(g, train, station)
                         >= passenger_demand[g].passenger_count
                  => TakenUp(g, train)]_vars

\* a group set down at its transfer station has been taken up by another train
\* than the one that brought it
C19_TakenUpAtTransfer ==
    \E g \in DOMAIN passenger_demand :
        /\ passenger_demand[g].status = "in_transit_leg2"
        /\ passenger_demand[g].departure_from_transfer_time
               > passenger_demand[g].arrival_at_transfer_time

-----------------------------------------------------------------------------
(* Rescheduling at the event's own time *)

\* a handler that may re-enqueue its event is due
ReschedulingHandlerDue ==
    \/ HandlerDue("train_insertion")
    \/ HandlerDue("train_departure")
    \/ HandlerDue("segment_enter")

\* every pending event other than the one popped is still in the queue
OtherEventsStay ==
    LET rest == HeapPop(event_queue)
    IN  \A e \in QueueEvents(rest) :
            /\ e \in QueueEvents(event_queue')
            /\ QueueBag(event_queue')[e] >= QueueBag(rest)[e]

\* the event popped is not put back at its own time
NotRequeuedAtOwnTime ==
    LET event == HeapTop(event_queue)
    IN  \A i \in 1..Len(event_queue') :
            LET e == event_queue'[i]
            IN  ~(/\ e.event_type = event.event_type
                  /\ e.train = event.train
                  /\ e.time = event.time)

\* C20: a rescheduling handler (train_insertion, train_departure,
\* segment_enter) never puts its event back at the event's own time, it drops
\* that event only, and every other pending event stays in the queue: the
\* queue is never cleared or replaced
C20_OnlyOwnEventDropped ==
    [][ReschedulingHandlerDue => OtherEventsStay /\ NotRequeuedAtOwnTime]_vars

\* no handler step loses a pending event other than the one it popped
QueueNeverCleared == [][PopDue => OtherEventsStay]_vars

-----------------------------------------------------------------------------
(* The schemes of a run *)

\* C21: an error that aborts the run of one scheme leaves the remaining
\* schemes of the list to be initialised and executed: after a failed scheme
\* that is not the last, the loop goes on
C21_ErrorsIsolatedPerScheme ==
    run_state = "failed" /\ scheme_after(cfg.scheme) # ""
        => ENABLED <<SchemesNext>>_vars

\* the second scheme is run after the first has completed
C21_SecondSchemeRuns ==
    /\ cfg.scheme = schemes[2]
    /\ run_state = "completed"
    /\ timetables # <<>>

-----------------------------------------------------------------------------
(* The loop time and the laps of a train *)

\* entry i records a southbound departure from station 1 and entry j the
\* next arrival of a northbound train at station 1
IsLap(i, j) ==
    /\ i < j
    /\ timetables[i].station_id = 1
    /\ timetables[i].direction = "southbound"
    /\ timetables[j].station_id = 1
    /\ timetables[j].direction = "northbound"
    /\ \A k \in (i + 1)..(j - 1) :
          ~(timetables[k].station_id = 1 /\ timetables[k].direction = "northbound")

\* the time of a lap, in milliseconds
LapTime(i, j) == timetables[j].arrival_time - timetables[i].departure_time

\* a single train runs under the REGULAR scheme without demand
SingleTrainAlone ==
    cfg.scheme = "REGULAR" /\ Len(trains) = 1 /\ cfg.demand = <<>>

FirstLapTakesLoopTime ==
    SingleTrainAlone =>
        \A i, j \in 1..Len(timetables) :
            /\ IsLap(i, j)
            /\ \A k \in 1..(i - 1) : timetables[k].direction # "southbound"
            => LapTime(i, j) = calculate_loop_time(cfg, 1).total * MsPerSecond

-----------------------------------------------------------------------------
(* Departures held by contention *)

\* the segment that the departure due leads into
DepartureSegment ==
    LET event == HeapTop(event_queue)
        direction == trains[event.train].direction
    IN  <<event.station,
          IF direction = "southbound" THEN event.station + 1 ELSE event.station - 1>>

\* the times of the pending segment_exit events of the occupant of the
\* segment that the departure due leads into
OccupantExitTimes ==
    {e.time : e \in {x \in QueueEvents(HeapPop(event_queue)) :
                        /\ x.event_type = "segment_exit"
                        /\ x.segment = DepartureSegment
                        /\ x.train = segments[DepartureSegment].occupied_by}}

\* a departure is due whose next segment is occupied while a segment_exit of
\* the occupant is pending
DepartureHeldBySegment ==
    /\ HandlerDue("train_departure")
    /\ trains[HeapTop(event_queue).train].is_active
    /\ segments[DepartureSegment].occupied_by # 0
    /\ OccupantExitTimes # {}

\* the times at which the departure due is in the queue after the step
RequeuedDepartureTimes ==
    LET event == HeapTop(event_queue)
    IN  {e.time : e \in {x \in QueueEvents(event_queue') :
                            /\ x.event_type = "train_departure"
                            /\ x.train = event.train
                            /\ x.station = event.station}}

\* the smallest buffer of the conflict path of a departure: base_buffer
DepartureBaseBuffer == 5 * MsPerSecond

\* the buffer of the conflict path: base_buffer times 2, 1.5 or 1 as the
\* share of the active trains without a current_station is above 0.6, 0.4 or
\* not
DepartureBuffer ==
    LET active == {t \in DOMAIN trains : InSeq(active_trains, t)}
        inside == Cardinality({t \in active : trains[t].current_station = 0})
        den == IF active = {} THEN 1 ELSE Cardinality(active)
    IN  IF 10 * inside > 6 * den THEN 2 * DepartureBaseBuffer
        ELSE IF 10 * inside > 4 * den THEN (3 * DepartureBaseBuffer) \div 2
        ELSE DepartureBaseBuffer

\* the latest departure that the dwell cap allows to the train of the
\* departure due
DwellCapTime ==
    trains[HeapTop(event_queue).train].arrival_time + 3 * cfg.dwellTime * MsPerSecond

\* C23, as the claim states it: a train_departure that finds its next
\* segment occupied while a segment_exit of the occupant for the segment is
\* pending is enqueued again, at a time no earlier than that segment_exit
\* plus the departure buffer
C23_DepartureAfterSegmentExit ==
    [][DepartureHeldBySegment =>
          /\ RequeuedDepartureTimes # {}
          /\ \A t \in RequeuedDepartureTimes :
                t >= SeqMin(OccupantExitTimes) + DepartureBaseBuffer]_vars

\* C23, amended: such a departure is enqueued again no earlier than the
\* segment_exit plus the departure buffer, unless that time is beyond the
\* dwell cap and the cap is still ahead of the event: then it is enqueued
\* again at arrival_time + 3 x dwell
C23_DepartureAfterExitOrAtCap ==
    [][DepartureHeldBySegment =>
          /\ RequeuedDepartureTimes # {}
          /\ \A t \in RequeuedDepartureTimes :
                \/ t >= SeqMin(OccupantExitTimes) + DepartureBuffer
                \/ /\ t = DwellCapTime
                   /\ DwellCapTime > HeapTop(event_queue).time
                   /\ DwellCapTime < SeqMin(OccupantExitTimes) + DepartureBuffer]_vars

\* a departure waits in the queue for the segment_exit of the train that
\* holds its next segment, beyond the dwell cap of its train
C23_DepartureWaitsForExit ==
    /\ last_event.event_type = "train_departure"
    /\ \E i, j \in 1..Len(event_queue) :
          LET e == event_queue[i]
              x == event_queue[j]
          IN  /\ e.event_type = "train_departure"
              /\ e.train = last_event.train
              /\ e.station = last_event.station
              /\ x.event_type = "segment_exit"
              /\ x.train # e.train
              /\ x.segment[1] = e.station
              /\ segments[x.segment].occupied_by = x.train
              /\ e.time >= x.time + DepartureBaseBuffer

\* C24: a train_departure that is enqueued again because of contention is
\* never enqueued later than the recorded arrival_time of its train plus
\* 3 x the nominal dwell
C24_DwellCapped ==
    [][(HandlerDue("train_departure") /\ ~DepartureWayFree
            /\ trains[HeapTop(event_queue).train].is_active) =>
          \A t \in RequeuedDepartureTimes : t <= DwellCapTime]_vars

-----------------------------------------------------------------------------
(* The congestion factor *)

\* the active trains that are inside a track segment
ActiveTrainsInSegments ==
    {t \in DOMAIN trains :
        /\ InSeq(active_trains, t)
        /\ \E s \in SegmentIds : segments[s].occupied_by = t}

\* C25: the congestion factor of the congestion metrics is the number of
\* active trains inside a track segment over max(number of active trains, 1),
\* and so positive whenever an active train traverses a segment
C25_CongestionFactor ==
    LET metrics == calculate_system_congestion_metrics(event_queue, trains, active_trains)
    IN  /\ metrics.trains_in_segments = Cardinality(ActiveTrainsInSegments)
        /\ metrics.congestion_den = Max(Len(active_trains), 1)

\* the congestion metrics count no train inside a segment, in any state
CongestionAlwaysZero ==
    calculate_system_congestion_metrics(event_queue, trains, active_trains)
        .trains_in_segments = 0

-----------------------------------------------------------------------------
(* Insertion and the platform of station 1 *)

\* an insertion is due while the northbound platform of station 1 is occupied
InsertionAtOccupiedPlatform ==
    HandlerDue("train_insertion") /\ platforms[1]["northbound"] # 0

\* the insertion due is back in the queue, for a later time
InsertionDeferred ==
    LET event == HeapTop(event_queue)
    IN  /\ Len(event_queue') = Len(event_queue)
        /\ \E e \in QueueEvents(event_queue') :
              /\ e.event_type = "train_insertion"
              /\ e.train = event.train
              /\ e.time > event.time

\* C26: a train_insertion processed while the northbound platform of station
\* 1 is occupied does not insert the train at that time: it is enqueued again
\* for a later time and the depot segment is left unchanged
C26_InsertionWaitsForPlatform ==
    [][InsertionAtOccupiedPlatform =>
          /\ InsertionDeferred
          /\ segments'[InsertionSegment] = segments[InsertionSegment]]_vars

-----------------------------------------------------------------------------
(* Deployment at a change of the service period *)

\* the number of events of a queue that insert a train
InsertionsOf(queue, train) ==
    Cardinality({i \in 1..Len(queue) :
                    queue[i].event_type = "train_insertion" /\ queue[i].train = train})

\* the trains for which the step schedules an insertion
NewlyInserted ==
    {t \in DOMAIN trains :
        InsertionsOf(event_queue', t) > InsertionsOf(HeapPop(event_queue), t)}

\* a service_period_change is due whose target is above the active count
DeploymentDue ==
    /\ HandlerDue("service_period_change")
    /\ Len(active_trains) < service_periods[HeapTop(event_queue).period].TRAIN_COUNT

\* the step deploys k trains
Deploys(k) ==
    /\ Cardinality(NewlyInserted) = k
    /\ Len(event_queue') = Len(event_queue) - 1 + k
    /\ \A t \in NewlyInserted :
          /\ InsertionsOf(event_queue', t) = InsertionsOf(HeapPop(event_queue), t) + 1
          /\ ~InSeq(active_trains, t)
          /\ InSeq(active_trains', t)
    /\ Len(active_trains') = Len(active_trains) + k
    /\ \A i, j \in 1..Len(active_trains') :
          active_trains'[i] = active_trains'[j] => i = j
    /\ \A i \in 1..Len(active_trains) : active_trains'[i] = active_trains[i]
    /\ Len(active_trains') <= Len(trains)

\* C27: a service_period_change with the active count below the target
\* schedules exactly k = min(target - current, roster trains not active)
\* train_insertion events, for k distinct trains that were not active, each
\* of which joins the active set at once; the active set then has current + k
\* members, no duplicates, and is within the roster
C27_DeploysMissingTrains ==
    [][DeploymentDue =>
          Deploys(Min(service_periods[HeapTop(event_queue).period].TRAIN_COUNT
                          - Len(active_trains),
                      Cardinality({t \in DOMAIN trains : ~InSeq(active_trains, t)})))]_vars

\* a change of the service period has added several trains to a train that
\* was running
C27_TrainsAddedToRunning ==
    /\ last_event.event_type = "service_period_change"
    /\ Cardinality({t \in DOMAIN trains : InsertionsOf(event_queue, t) = 1}) >= 2
    /\ \E t \in DOMAIN trains :
          InSeq(active_trains, t) /\ InsertionsOf(event_queue, t) = 0
    /\ \A t \in DOMAIN trains :
          InsertionsOf(event_queue, t) = 1 => InSeq(active_trains, t)


\* ---- Wait time of a transferring group ----

\* the groups of the run, wherever they are
AllGroups == {passenger_demand[g] : g \in 1..Len(passenger_demand)}

\* a TRANSFER group that has boarded its second leg
OnSecondLeg(demand) ==
    /\ demand.trip_type = "TRANSFER"
    /\ demand.status \in {"in_transit_leg2", "completed"}

OriginWait(demand) == demand.departure_from_origin_time - demand.arrival_time

TransferWait(demand) ==
    demand.departure_from_transfer_time - demand.arrival_at_transfer_time

\* C28: for every TRANSFER group that has boarded its second leg, wait_time
\* equals the sum of its origin wait and its transfer wait,
\* (departure_from_origin_time - arrival_time)
\*     + (departure_from_transfer_time - arrival_at_transfer_time).
C28_WaitTimeSumsBothWaits ==
    \A demand \in AllGroups :
        OnSecondLeg(demand)
            => demand.wait_time = OriginWait(demand) + TransferWait(demand)

\* what the run keeps instead: the wait of a group that has boarded is
\* the origin wait alone, the transfer wait is never added
WaitTimeIsOriginWait ==
    \A demand \in AllGroups :
        demand.status \notin {"waiting_at_origin"}
            => demand.wait_time = Max(OriginWait(demand), 0)

\* a group on its second leg that waited at the transfer station
SecondLegAfterTransferWait ==
    \E demand \in AllGroups :
        OnSecondLeg(demand) /\ TransferWait(demand) > 0


\* ---- Every boarding is a compatible one ----

\* the group's next required stop when it is taken up: the transfer station
\* on the first leg of a TRANSFER trip, the destination otherwise
NextRequiredStop(demand) ==
    IF demand.status = "waiting_at_origin" /\ demand.trip_type = "TRANSFER"
    THEN demand.transfer_station_id
    ELSE demand.destination_station_id

\* the conditions of a boarding of group g on the train at the station, with
\* the group as it waited (a group set down in the same exchange waits from
\* the train's arrival on, in the direction of its second leg)
CompatibleBoarding(g, train, station, departure_time) ==
    LET before == passenger_demand[g]
        after == passenger_demand'[g]
        service_type == trains[train].service_type
    IN  /\ Serves(service_type, station)
        /\ after.direction = trains[train].direction
        /\ IF after.status = "in_transit_leg1"
           THEN /\ before.status = "waiting_at_origin"
                /\ before.arrival_time <= departure_time
                /\ Serves(service_type, NextRequiredStop(before))
           ELSE /\ after.arrival_at_transfer_time # NoTime
                /\ after.arrival_at_transfer_time <= departure_time
                /\ Serves(service_type, after.destination_station_id)

\* C29: every boarding satisfies all compatibility conditions at the moment
\* it happens: the train stops at the station, the group's direction equals
\* the train's direction, the group had arrived by the train's departure time
\* (arrival_time for waiting_at_origin, arrival_at_transfer_time for
\* waiting_for_transfer), and the train's service type can reach the group's
\* next required stop (the transfer station on leg 1 of a TRANSFER trip, the
\* destination otherwise)
C29_BoardingIsCompatible ==
    [][\A g \in DOMAIN passenger_demand : \A train \in DOMAIN trains :
           TakenUp(g, train)
               => /\ ExchangeStep
                  /\ LET entry == timetables'[Len(timetables')]
                     IN  /\ entry.train_id = train
                         /\ Considered(g, train, entry.station_id)
                         /\ CompatibleBoarding(g, train, entry.station_id,
                                               entry.departure_time)]_vars

\* a skip-stop train of type A or B carries a group it took up at a station
\* of its own type, after the group came to the station
C29_BoardedOnSkipStopTrain ==
    \E g \in DOMAIN passenger_demand :
        LET demand == passenger_demand[g]
        IN  /\ demand.status = "in_transit_leg1"
            /\ demand.train_id \in DOMAIN trains
            /\ trains[demand.train_id].service_type \in {"A", "B"}
            /\ InSeq(trains[demand.train_id].boarded_demand, g)
            /\ TypeOf(demand.origin_station_id) = trains[demand.train_id].service_type
            /\ demand.departure_from_origin_time > demand.arrival_time

\* ---- No exchange at a station the train does not stop at ----

\* the exchange sets the group down from the train
SetDown(g, train) ==
    /\ passenger_demand[g].status \in {"in_transit_leg1", "in_transit_leg2"}
    /\ passenger_demand[g].train_id = train
    /\ InSeq(trains[train].boarded_demand, g)
    /\ \/ passenger_demand'[g].status \in {"waiting_for_transfer", "completed"}
       \/ passenger_demand'[g].status # passenger_demand[g].status
       \/ ~InSeq(trains'[train].boarded_demand, g)

\* the station is a stop for the train
IsStopFor(train, station) ==
    should_stop(TypeOf(station), trains[train].service_type)

\* C30: no passenger group boards or alights a train at a station that is
\* not a stop for that train (a station whose type differs from the train's
\* service type and is not AB); this holds for the exchanges run at
\* departures, at turnarounds and at withdrawal alike
C30_ExchangeOnlyAtStops ==
    [][LET entry == timetables'[Len(timetables')]
       IN  /\ \A g \in DOMAIN passenger_demand : \A train \in DOMAIN trains :
                  TakenUp(g, train) \/ SetDown(g, train)
                      => /\ ExchangeStep
                         /\ entry.train_id = train
                         /\ IsStopFor(train, entry.station_id)
           /\ ExchangeStep
                  /\ entry.passengers_boarded + entry.passengers_alighted > 0
                  => IsStopFor(entry.train_id, entry.station_id)]_vars

\* the exchanges that it is about have run: a train has turned at a terminus
\* that is not one of its stops, a train has been withdrawn at one, and a
\* group has been set down at a terminus by a train that stops there
C30_TurnedWhereNoStop ==
    /\ \E i \in DOMAIN timetables :
          /\ is_terminus(timetables[i].station_id)
          /\ timetables[i].train_status # "inactive"
          /\ ~IsStopFor(timetables[i].train_id, timetables[i].station_id)
    /\ \E i \in DOMAIN timetables :
          /\ timetables[i].train_status = "inactive"
          /\ ~IsStopFor(timetables[i].train_id, timetables[i].station_id)
    /\ \E i \in DOMAIN timetables :
          /\ is_terminus(timetables[i].station_id)
          /\ TypeOf(timetables[i].station_id) # "AB"
          /\ timetables[i].passengers_alighted > 0

\* ---- The train status of a timetable entry ----

\* C31: every timetable entry recorded during a run has train_status
\* "active" or "inactive", whichever handler records it (departure,
\* turnaround, including a train's first turnaround after its insertion, or
\* withdrawal)
C31_EntryStatusActiveOrInactive ==
    \A i \in DOMAIN timetables :
        timetables[i].train_status \in {"active", "inactive"}

\* what the run keeps instead: an entry is "insertion" exactly when it is
\* the train's turnaround at station 1 with no departure of the train since
\* its insertion
EntryStatusKept ==
    \A i \in DOMAIN timetables :
        /\ timetables[i].train_status \in {"active", "inactive", "insertion"}
        /\ timetables[i].train_status = "insertion"
               => timetables[i].station_id = 1

\* ---- A segment_exit of a train that does not occupy the segment ----

\* every pending segment_exit is one of the occupant of its segment: the
\* case of a segment_exit processed for another train than the occupant
\* never happens
SegmentExitIsOfOccupant ==
    \A i \in DOMAIN event_queue :
        event_queue[i].event_type = "segment_exit"
            => segments[event_queue[i].segment].occupied_by = event_queue[i].train

\* ---- The is_active flag and the active set ----

\* C33: in every reachable state a train's is_active flag is true iff the
\* train is a member of the active set; in the initial state, before any
\* service_period_change, every roster train is inactive, at station 1 and
\* southbound
C33_ActiveFlagIsMembership ==
    /\ \A t \in DOMAIN trains : trains[t].is_active <=> InSeq(active_trains, t)
    /\ last_event = NoEvent
           => \A t \in DOMAIN trains :
                  /\ ~trains[t].is_active
                  /\ trains[t].current_station = 1
                  /\ trains[t].direction = "southbound"

\* what the run keeps instead: the members of the active set have the flag
\* set, and a train outside the set has it cleared only once it has been
\* withdrawn; before any event every train is at station 1, southbound, with
\* the flag set and outside the active set
ActiveSetIsFlagged ==
    /\ \A t \in DOMAIN trains : InSeq(active_trains, t) => trains[t].is_active
    /\ last_event = NoEvent
           => /\ active_trains = <<>>
              /\ \A t \in DOMAIN trains :
                     /\ trains[t].is_active
                     /\ trains[t].current_station = 1
                     /\ trains[t].direction = "southbound"

\* ---- The ride of a group on its train ----

\* the group is aboard a train
Aboard(g) == passenger_demand[g].status \in {"in_transit_leg1", "in_transit_leg2"}

\* the station where the leg under way began and the stop where it ends
LegStart(demand) ==
    IF demand.status = "in_transit_leg2"
    THEN demand.transfer_station_id ELSE demand.origin_station_id

LegStop(demand) ==
    IF demand.status = "in_transit_leg1" /\ demand.trip_type = "TRANSFER"
    THEN demand.transfer_station_id ELSE demand.destination_station_id

\* a group aboard is in the list of its train and of no other, and the train
\* is between the station where the group boarded and the group's stop, on
\* its way to the stop
OnTheWay(g) ==
    LET demand == passenger_demand[g]
        train == demand.train_id
    IN  /\ train \in DOMAIN trains
        /\ \A t \in DOMAIN trains : InSeq(trains[t].boarded_demand, g) <=> t = train
        /\ trains[train].direction = Toward(LegStart(demand), LegStop(demand))
        /\ IF trains[train].direction = "southbound"
           THEN /\ LegStart(demand) <= trains[train].current_station
                /\ trains[train].current_station <= LegStop(demand)
           ELSE /\ LegStop(demand) <= trains[train].current_station
                /\ trains[train].current_station <= LegStart(demand)

RidesOnTheWay == \A g \in DOMAIN passenger_demand : Aboard(g) => OnTheWay(g)

\* a step that ends the ride of a group ends it at the group's stop, in an
\* exchange of the train that took the group up; an exchange of that train at
\* the stop ends the ride; a turnaround and a withdrawal leave nobody aboard
RideStep ==
    /\ \A g \in DOMAIN passenger_demand :
          Aboard(g) /\ passenger_demand'[g] # passenger_demand[g]
              => /\ ExchangeStep
                 /\ timetables'[Len(timetables')].train_id = passenger_demand[g].train_id
                 /\ timetables'[Len(timetables')].station_id = LegStop(passenger_demand[g])
                 /\ ~InSeq(trains'[passenger_demand[g].train_id].boarded_demand, g)
                       \/ passenger_demand'[g].status = "in_transit_leg2"
                 /\ passenger_demand'[g].status
                        = IF LegStop(passenger_demand[g])
                                 = passenger_demand[g].destination_station_id
                          THEN "completed"
                          ELSE IF passenger_demand'[g].train_id = 0
                               THEN "waiting_for_transfer" ELSE "in_transit_leg2"
    /\ \A g \in DOMAIN passenger_demand :
          /\ Aboard(g)
          /\ ExchangeStep
          /\ timetables'[Len(timetables')].train_id = passenger_demand[g].train_id
          /\ timetables'[Len(timetables')].station_id = LegStop(passenger_demand[g])
          => passenger_demand'[g] # passenger_demand[g]
    /\ HandlerDue("turnaround") \/ WithdrawalArrival
          => trains'[HeapTop(event_queue).train].boarded_demand = <<>>

\* at the end of the run nobody is aboard
NobodyAboardAtTheEnd ==
    run_state = "completed" => \A g \in DOMAIN passenger_demand : ~Aboard(g)

\* C34: every group that boards a train alights from that same train at its
\* next required stop (its destination, or its transfer station on leg 1),
\* which the train reaches after the boarding station in its current
\* direction of travel; no group is carried past its stop or remains aboard
\* through a turnaround or a withdrawal
C34_BoardedGroupAlightsAtItsStop ==
    /\ []RidesOnTheWay
    /\ [][RideStep]_vars
    /\ []NobodyAboardAtTheEnd

\* what the run keeps: a group aboard is in the list of the train that
\* took it up, between the boarding station and its next required stop and
\* heading for the stop; its ride ends only in an exchange of that train at
\* that stop, every such exchange ends it, and a turnaround or a withdrawal
\* leaves nobody aboard; a group aboard when the run reaches the end of the
\* service day stays aboard
RideEndsOnlyAtItsStop ==
    /\ []RidesOnTheWay
    /\ [][RideStep]_vars

\* a group has ridden both legs of its trip, the first one to a terminus,
\* where the turnaround of its train set it down
SetDownAtTurnaround ==
    \E g \in DOMAIN passenger_demand :
        /\ passenger_demand[g].status = "completed"
        /\ passenger_demand[g].trip_type = "TRANSFER"
        /\ is_terminus(passenger_demand[g].transfer_station_id)
        /\ passenger_demand[g].completion_time
               > passenger_demand[g].departure_from_transfer_time

\* ---- One pending event for every running train ----

\* the number of pending events of every train is 1 for a train of the
\* active set and 0 for a train outside it
OnePendingEventEach ==
    \A t \in DOMAIN trains :
        Cardinality(EventsOfTrain(event_queue, t))
            = IF InSeq(active_trains, t) THEN 1 ELSE 0

\* C35: in every reachable state each train in the active set has exactly one
\* pending event in the queue (its next lifecycle event: insertion,
\* segment_exit, arrival, turnaround, departure or segment_enter) and each
\* train outside the active set has none, because every handler consumes one
\* event of a train and enqueues exactly one follow-up or reschedule for it,
\* except withdrawal, which enqueues none
C35_OnePendingEventPerActiveTrain == OnePendingEventEach

\* C35 as the run keeps it: as long as the clock has not reached the end of
\* the service day, each train in the active set has exactly one pending
\* event and each train outside it has none; the event that the main loop
\* discards at or after the end time leaves its train without one
C35_OnePendingEventUntilTheEnd ==
    run_state = "running" /\ current_time < EndTime => OnePendingEventEach

\* two trains are running with one pending event each, beside a train that
\* has been withdrawn and has none
C35_RunningBesideWithdrawn ==
    /\ run_state = "running"
    /\ current_time < EndTime
    /\ Len(active_trains) >= 2
    /\ \A i \in DOMAIN active_trains :
          Cardinality(EventsOfTrain(event_queue, active_trains[i])) = 1
    /\ \E t \in DOMAIN trains :
          /\ ~trains[t].is_active
          /\ EventsOfTrain(event_queue, t) = {}

\* ---- The platform of a standing train ----

\* the train of the event stands at the event's station
Standing(event) == event.event_type \in {"train_departure", "turnaround"}

\* C36: whenever a train is standing at a station with a pending
\* train_departure or turnaround event (including a train waiting at a
\* terminus after its turnaround, and a train whose departure was
\* rescheduled), the station's platform slot for the train's current
\* direction holds that train
C36_StandingTrainHoldsPlatform ==
    \A i \in DOMAIN event_queue :
        Standing(event_queue[i])
            => platforms[event_queue[i].station][trains[event_queue[i].train].direction]
                   = event_queue[i].train

\* what the run keeps: a platform slot that holds a train holds one that is
\* at the station and travels in the direction of the slot; the slot of the
\* new direction is not taken by a turnaround
PlatformHeldByAnArrival ==
    \A s \in Stations : \A direction \in {"northbound", "southbound"} :
        platforms[s][direction] # 0
            => /\ trains[platforms[s][direction]].current_station = s
               /\ trains[platforms[s][direction]].direction = direction

\* ---- Withdrawals and the target of the period in force ----

\* the service period in force: the last one whose service_period_change has
\* been processed, 0 before the first
PeriodInForce ==
    LET pending == {event_queue[i].period : i \in
                       {j \in DOMAIN event_queue :
                            event_queue[j].event_type = "service_period_change"}}
        done == {p \in DOMAIN service_periods : \A q \in pending : p < q}
    IN  IF done = {} THEN 0 ELSE CHOOSE p \in done : \A q \in done : q <= p

TargetInForce ==
    IF PeriodInForce = 0 THEN 0 ELSE service_periods[PeriodInForce].TRAIN_COUNT

\* C37: a train is withdrawn only while the number of active trains exceeds
\* the target train count of the service period currently in force: after any
\* sequence of service_period_change events (including a decrease followed by
\* an increase before all pending withdrawals happened), withdrawals never
\* reduce the active count below the current period's target
C37_WithdrawalKeepsTarget ==
    [][Len(active_trains') < Len(active_trains)
           => Len(active_trains') >= TargetInForce]_vars

\* ---- From the platform into the segment ----

\* the departure at the head of the queue takes effect: the train leaves its
\* platform and a timetable entry is recorded
DepartureTakesEffect ==
    /\ HandlerDue("train_departure")
    /\ Len(timetables') = Len(timetables) + 1

\* the segment_enter at the head of the queue is due and its train enters
SegmentEnterSucceeds ==
    LET event == HeapTop(event_queue)
    IN  /\ segments[event.segment].occupied_by = 0
        /\ segments'[event.segment].occupied_by = event.train
        /\ \E i \in DOMAIN event_queue' :
              /\ event_queue'[i].event_type = "segment_exit"
              /\ event_queue'[i].train = event.train
              /\ event_queue'[i].segment = event.segment

\* a departure that takes effect schedules the segment_enter of its train
\* into the next segment at its own time
DepartureSchedulesEntry ==
    LET event == HeapTop(event_queue)
        direction == trains[event.train].direction
        next_station == IF direction = "southbound"
                        THEN event.station + 1 ELSE event.station - 1
    IN  \E i \in DOMAIN event_queue' :
            event_queue'[i] = Event(event.time, "segment_enter", 0, event.train,
                                    next_station, <<event.station, next_station>>)

\* the segment_enter at the head of the queue is the one its train's last
\* departure scheduled
EntryOfLastDeparture ==
    HeapTop(event_queue).time = trains[HeapTop(event_queue).train].last_departure_time

EntryStep ==
    /\ DepartureTakesEffect => DepartureSchedulesEntry
    /\ HandlerDue("segment_enter") => SegmentEnterSucceeds /\ EntryOfLastDeparture

\* C38: every train_departure that takes effect is followed by a successful
\* segment_enter of the same train into the next segment at the same
\* timestamp: no train that has left its platform (timetable entry recorded)
\* ever fails to enter the segment and waits outside both platform and
\* segment
C38_DepartureEntersSegment == [][EntryStep]_vars

\* a train has left its platform and entered the next segment in the same
\* instant, while another train was running
C38_EnteredOnDeparture ==
    /\ Len(active_trains) >= 2
    /\ \E t \in DOMAIN trains : \E id \in SegmentIds :
          /\ segments[id].occupied_by = t
          /\ id # InsertionSegment
          /\ segments[id].last_entry_time = trains[t].last_departure_time
          /\ timetables # <<>>
          /\ timetables[Len(timetables)].train_id = t
          /\ timetables[Len(timetables)].departure_time = segments[id].last_entry_time

\* ---- The place of a group ----

\* the places where group g is listed: entries of the waiting lists of the
\* stations and of the boarded lists of the trains
WaitingPlaces(g) ==
    {p \in Stations \X (1..MaxGroups) :
        /\ p[2] <= Len(waiting_demand[p[1]])
        /\ waiting_demand[p[1]][p[2]] = g}

BoardedPlaces(g) ==
    {p \in (DOMAIN trains) \X (1..MaxGroups) :
        /\ p[2] <= Len(trains[p[1]].boarded_demand)
        /\ trains[p[1]].boarded_demand[p[2]] = g}

\* the lists are not longer than the number of groups
ListsWithinGroups ==
    /\ \A station \in Stations : Len(waiting_demand[station]) <= Len(passenger_demand)
    /\ \A t \in DOMAIN trains : Len(trains[t].boarded_demand) <= Len(passenger_demand)

\* group g is in the one place its status names
InItsPlace(g) ==
    LET demand == passenger_demand[g]
    IN  CASE demand.status = "waiting_at_origin" ->
                 /\ WaitingPlaces(g) \subseteq {demand.origin_station_id} \X (1..MaxGroups)
                 /\ Cardinality(WaitingPlaces(g)) = 1
                 /\ BoardedPlaces(g) = {}
          [] demand.status = "waiting_for_transfer" ->
                 /\ WaitingPlaces(g) \subseteq {demand.transfer_station_id} \X (1..MaxGroups)
                 /\ Cardinality(WaitingPlaces(g)) = 1
                 /\ BoardedPlaces(g) = {}
          [] demand.status \in {"in_transit_leg1", "in_transit_leg2"} ->
                 /\ Cardinality(BoardedPlaces(g)) = 1
                 /\ WaitingPlaces(g) = {}
          [] demand.status = "completed" ->
                 /\ WaitingPlaces(g) = {}
                 /\ BoardedPlaces(g) = {}
          [] OTHER -> FALSE

\* C39: in every reachable state each demand group is in exactly one place:
\* in the waiting list of exactly one station (status waiting_at_origin at its
\* origin, or waiting_for_transfer at its transfer station), in the boarded
\* list of exactly one train (status in_transit_leg1 or in_transit_leg2), or
\* completed and in neither; no group is ever duplicated or lost
C39_GroupInOnePlace ==
    /\ ListsWithinGroups
    /\ \A g \in DOMAIN passenger_demand : InItsPlace(g)

\* a group waits at its transfer station, listed there, while another still
\* waits at its origin
C39_WaitingAtTransferAndOrigin ==
    \E g, h \in DOMAIN passenger_demand :
        /\ passenger_demand[g].status = "waiting_for_transfer"
        /\ InSeq(waiting_demand[passenger_demand[g].transfer_station_id], g)
        /\ passenger_demand[h].status = "waiting_at_origin"
        /\ InSeq(waiting_demand[passenger_demand[h].origin_station_id], h)

\* ---- One station at a time ----

\* the arrival at the head of the queue is the first one of its train since
\* the train's insertion: the train has the status _handle_insertion gave it
FirstArrivalSinceInsertion == trains[HeapTop(event_queue).train].status = "insertion"

\* an arrival is at the station next to the one of the train's last arrival,
\* in the train's direction; the first arrival of an inserted train is at
\* station 1, northbound; current_station is the station of the last arrival
\* of a train in service (the arrival that withdraws a train returns before
\* it is assigned)
ArrivesNextDoor ==
    LET event == HeapTop(event_queue)
        train == trains[event.train]
    IN  /\ trains'[event.train].is_active
               => trains'[event.train].current_station = event.station
        /\ trains'[event.train].direction = train.direction
        /\ IF FirstArrivalSinceInsertion
           THEN event.station = 1 /\ train.direction = "northbound"
           ELSE event.station = IF train.direction = "southbound"
                                THEN train.current_station + 1
                                ELSE train.current_station - 1

\* the train's station changes only at its arrival, and its direction only in
\* its turnaround at a terminus where it stands, or when its insertion puts
\* it on the line northbound
MovesAlongTheLine(t) ==
    /\ trains'[t].current_station # trains[t].current_station
           => HandlerDue("train_arrival") /\ HeapTop(event_queue).train = t
    /\ trains'[t].direction # trains[t].direction
           => \/ /\ HandlerDue("turnaround")
                 /\ HeapTop(event_queue).train = t
                 /\ is_terminus(HeapTop(event_queue).station)
                 /\ trains[t].current_station = HeapTop(event_queue).station
                 /\ trains[t].direction
                        = IF trains[t].current_station = 1
                          THEN "northbound" ELSE "southbound"
              \/ /\ HandlerDue("train_insertion")
                 /\ HeapTop(event_queue).train = t
                 /\ trains'[t].direction = "northbound"
                 /\ trains[t].status # "active"

StationStep ==
    /\ HandlerDue("train_arrival") => ArrivesNextDoor
    /\ \A t \in DOMAIN trains : MovesAlongTheLine(t)

\* C40: each train moves along the line one station at a time: between two
\* consecutive train_arrival events of the same train the station index
\* changes by exactly one in the train's direction, the direction reverses
\* only in a turnaround at a terminus (station 1 or station N), and a
\* (re-)inserted train's first arrival is at station 1 northbound
C40_OneStationAtATime == [][StationStep]_vars

\* a train that was withdrawn and inserted again is back on the line and has
\* gone down it, turned at the southern terminus and come up again
C40_ReinsertedTrainOnItsWayBack ==
    \E t \in DOMAIN trains :
        /\ \E i \in DOMAIN timetables :
              /\ timetables[i].train_id = t
              /\ timetables[i].train_status = "inactive"
              /\ \E j \in DOMAIN timetables :
                    /\ j > i
                    /\ timetables[j].train_id = t
                    /\ timetables[j].station_id = NumStations
        /\ trains[t].direction = "northbound"
        /\ trains[t].current_station \notin {1, NumStations}

=========================================================================
